---- MODULE Spec2Model ----
(***************************************************************************)
(* HostelHelper (src/App.py): the role-based console application.          *)
(* The JSON documents of hostel_data/ are the persistent state; every      *)
(* operation loads the documents it needs, works on the loaded objects and *)
(* saves the whole collection back.  One action models one pass of the     *)
(* run() loop: a login attempt, or one menu choice with the handler it     *)
(* dispatches to, including the inputs the handler prompts for.            *)
(***************************************************************************)
EXTENDS Integers, Sequences, FiniteSets, TLC

VARIABLES
    users,          \* hostel_data/users.json: sequence of user dicts
    rooms,          \* hostel_data/rooms.json: sequence of room dicts
    complaints,     \* hostel_data/complaints.json
    attendance,     \* hostel_data/attendance.json
    feedback,       \* hostel_data/feedback.json
    events,         \* hostel_data/events.json
    menu,           \* hostel_data/menu.json: day -> meals
    current_user,   \* HostelHelper.current_user: <<>> is None, <<u>> a bound User
    pc,             \* "loop" while run() is in its while loop, "exited" once the
                    \* loop is left and the process ends (its objects are gone)
    today,          \* the calendar day datetime.now() falls on (day index)
    notice,         \* the last line printed that reports an outcome
    nops,           \* number of document writes and day changes so far
    files,          \* the state of each backing file of hostel_data/: "valid"
                    \* (holds the JSON text of the document variable),
                    \* "missing", "invalid" (text that json.load rejects) or
                    \* "undecodable" (bytes that open(path, 'r') cannot decode)
    sessions        \* further processes started on the same hostel_data/, each
                    \* a record of its logged-in user, its position inside
                    \* the handler it runs and the locals of that handler;
                    \* <<>> while the console session above is the only one

vars == <<users, rooms, complaints, attendance, feedback, events, menu,
          current_user, pc, today, notice, nops, files, sessions>>

docs == <<users, rooms, complaints, attendance, feedback, events, menu, files>>

---------------------------------------------------------------------------
(* Bounds of the model. *)

\* events explored in one run of the program: successful document writes and
\* changes of the calendar day
MaxOps == 2

---------------------------------------------------------------------------
(* Python values. *)

\* Python None / JSON null (typed inputs never equal it)
None == "None"

\* truthiness of an Optional[str]: None and "" are falsy
Falsy(s) == s = None \/ s = ""

\* dict.get(key, default)
DictGet(d, k, default) == IF k \in DOMAIN d THEN d[k] ELSE default

\* str.strip() on the typed tokens of the model
Strip(s) ==
    CASE s = " sarah " -> "sarah"
      [] s = " 1 "     -> "1"
      [] s = "   "     -> ""
      [] OTHER         -> s

\* str.lower() on the typed tokens of the model
Lower(s) ==
    CASE s = "Exit" -> "exit"
      [] s = "QUIT" -> "quit"
      [] s = "Help" -> "help"
      [] s = "YES"  -> "yes"
      [] OTHER      -> s

\* get_input: input(prompt).strip()
get_input(typed) == Strip(typed)

\* the tokens int() accepts, with their values; int() raises ValueError on the rest
IntTokens == {"-1", "0", "1", "2", "3", "4", "5", "6", "7", "8", "9"}

IsInt(s) == s \in IntTokens

IntOf(s) ==
    CASE s = "-1" -> 0 - 1
      [] s = "0" -> 0 [] s = "1" -> 1 [] s = "2" -> 2 [] s = "3" -> 3
      [] s = "4" -> 4 [] s = "5" -> 5 [] s = "6" -> 6 [] s = "7" -> 7
      [] s = "8" -> 8 [] s = "9" -> 9

\* datetime.now().strftime("%Y-%m-%d"): one string per calendar day
DateStr(d) == "day-" \o ToString(d)

\* datetime.now().strftime("%Y-%m-%d %H:%M")
DateTimeStr(d) == DateStr(d) \o " 09:00"

DigitChars == <<"0", "1", "2", "3", "4", "5", "6", "7", "8", "9">>

RECURSIVE Digits(_)
\* the decimal digits of n >= 0, most significant first
Digits(n) ==
    IF n < 10 THEN <<DigitChars[n + 1]>>
    ELSE Digits(n \div 10) \o <<DigitChars[(n % 10) + 1]>>

RECURSIVE ZeroPad(_, _)
\* pad with leading zeros up to a minimum width; longer numbers are not cut
ZeroPad(ds, width) ==
    IF Len(ds) >= width THEN ds ELSE ZeroPad(<<"0">> \o ds, width)

\* the width of the format spec in f"C{...:04d}" and f"E{...:04d}"
IdWidth == 4

\* f"{prefix}{n:04d}" as the sequence of its characters
FormatId(prefix, n) == <<prefix>> \o ZeroPad(Digits(n), IdWidth)

RECURSIVE DigitsValue(_)
\* the number a digit sequence denotes
DigitsValue(ds) ==
    IF ds = <<>> THEN 0
    ELSE 10 * DigitsValue(SubSeq(ds, 1, Len(ds) - 1))
         + (CHOOSE v \in 0..9 : DigitChars[v + 1] = ds[Len(ds)])

\* the numeric suffix of an id
IdNumber(id) == DigitsValue(Tail(id))

Min(S) == CHOOSE x \in S : \A y \in S : x <= y

\* [x for x in seq if P]: the positions of the elements kept, in order
FilterIdx(n, keep) == SelectSeq([i \in 1..n |-> i], LAMBDA i : i \in keep)

\* number of positions of seq holding x
Count(seq, x) == Cardinality({i \in 1..Len(seq) : seq[i] = x})

---------------------------------------------------------------------------
(* Domain records: constructors, to_dict, from_dict. *)

User(username, password, role, room_number, full_name) ==
    [username |-> username, password |-> password, role |-> role,
     room_number |-> room_number, full_name |-> full_name]

User_to_dict(u) ==
    [username |-> u.username, password |-> u.password, role |-> u.role,
     room_number |-> u.room_number, full_name |-> u.full_name]

User_from_dict(data) ==
    User(data["username"], data["password"], data["role"],
         DictGet(data, "room_number", None), DictGet(data, "full_name", ""))

\* Complaint.__init__: status and submitted_date as given ("or now" for a
\* falsy date), resolved_date always None
Complaint(complaint_id, username, category, description, status, submitted_date) ==
    [complaint_id |-> complaint_id, username |-> username,
     category |-> category, description |-> description, status |-> status,
     submitted_date |-> IF Falsy(submitted_date) THEN DateTimeStr(today)
                        ELSE submitted_date,
     resolved_date |-> None]

Complaint_to_dict(c) ==
    [complaint_id |-> c.complaint_id, username |-> c.username,
     category |-> c.category, description |-> c.description,
     status |-> c.status, submitted_date |-> c.submitted_date,
     resolved_date |-> c.resolved_date]

\* a variant that leaves resolved_date as the constructor set it
Complaint_from_dict_unresolved(data) ==
    Complaint(data["complaint_id"], data["username"], data["category"],
              data["description"], data["status"], data["submitted_date"])

Complaint_from_dict(data) ==
    [Complaint(data["complaint_id"], data["username"], data["category"],
               data["description"], data["status"], data["submitted_date"])
        EXCEPT !.resolved_date = DictGet(data, "resolved_date", None)]

Event(event_id, title, description, date, time, venue) ==
    [event_id |-> event_id, title |-> title, description |-> description,
     date |-> date, time |-> time, venue |-> venue]

Event_to_dict(e) ==
    [event_id |-> e.event_id, title |-> e.title, description |-> e.description,
     date |-> e.date, time |-> e.time, venue |-> e.venue]

Event_from_dict(data) ==
    Event(data["event_id"], data["title"], data["description"],
          data["date"], data["time"], data["venue"])

\* Room.__init__: residents or []
Room(room_number, capacity, occupied, residents) ==
    [room_number |-> room_number, capacity |-> capacity,
     occupied |-> occupied, residents |-> residents]

\* a variant that also lets a full room through
is_available_inclusive(room) == room.occupied <= room.capacity

is_available(room) == room.occupied < room.capacity

Room_to_dict(r) ==
    [room_number |-> r.room_number, capacity |-> r.capacity,
     occupied |-> r.occupied, residents |-> r.residents]

Room_from_dict(data) ==
    Room(data["room_number"], data["capacity"], data["occupied"],
         DictGet(data, "residents", <<>>))

---------------------------------------------------------------------------
(* DataManager: load_* builds objects from the document, save_* receives   *)
(* the dicts and overwrites the whole document.                            *)

FileNames == {"users", "complaints", "events", "rooms", "menu", "attendance", "feedback"}

\* what a backing file can be when it is not the valid document
DamagedStates == {"missing", "invalid", "undecodable"}

\* DataManager.load_json / load_menu: the exceptions the except clause does not
\* name leave the function (UnicodeDecodeError is raised by f.read() inside
\* json.load and is no JSONDecodeError)
load_fails(name) == files[name] = "undecodable"

\* DataManager.load_json: the parsed content of a readable file, [] when the
\* file is missing (FileNotFoundError) or does not parse (JSONDecodeError);
\* nothing is returned when load_fails
load_json(name, content) == IF files[name] = "valid" THEN content ELSE <<>>

load_users ==
    LET data == load_json("users", users)
    IN  [i \in 1..Len(data) |-> User_from_dict(data[i])]
load_complaints ==
    LET data == load_json("complaints", complaints)
    IN  [i \in 1..Len(data) |-> Complaint_from_dict(data[i])]
load_events ==
    LET data == load_json("events", events)
    IN  [i \in 1..Len(data) |-> Event_from_dict(data[i])]
load_rooms ==
    LET data == load_json("rooms", rooms)
    IN  [i \in 1..Len(data) |-> Room_from_dict(data[i])]
\* load_menu: the same try/except around json.load, with {} for []
load_menu == IF files["menu"] = "valid" THEN menu ELSE <<>>
load_attendance == load_json("attendance", attendance)
load_feedback == load_json("feedback", feedback)

\* save_json / save_menu: the file is rewritten as a whole and holds valid
\* JSON afterwards
save_json(name) == [files EXCEPT ![name] = "valid"]

\* a variant that writes the list with the newest record first
user_dicts_newest_first(objs) == [i \in 1..Len(objs) |-> User_to_dict(objs[Len(objs) + 1 - i])]

\* [x.to_dict() for x in ...]: the dicts the callers hand to save_*
user_dicts(objs) == [i \in 1..Len(objs) |-> User_to_dict(objs[i])]
complaint_dicts(objs) == [i \in 1..Len(objs) |-> Complaint_to_dict(objs[i])]
event_dicts(objs) == [i \in 1..Len(objs) |-> Event_to_dict(objs[i])]
room_dicts(objs) == [i \in 1..Len(objs) |-> Room_to_dict(objs[i])]

\* DataManager._initialize_default_data on a fresh data directory
default_users ==
    << User("admin", "admin123", "admin", None, "Admin User"),
       User("warden1", "warden123", "warden", None, "Warden Mary"),
       User("sarah", "sarah123", "resident", "101", "Sarah Ahmed"),
       User("fatima", "fatima123", "resident", "101", "Fatima Khan") >>

default_rooms ==
    << Room("101", 2, 2, <<"sarah", "fatima">>),
       Room("102", 2, 1, <<"aisha">>),
       Room("103", 2, 0, <<>>),
       Room("201", 3, 0, <<>>),
       Room("202", 3, 0, <<>>) >>

Days == {"Monday", "Tuesday", "Wednesday", "Thursday", "Friday",
         "Saturday", "Sunday"}

DaySeq == <<"Monday", "Tuesday", "Wednesday", "Thursday", "Friday",
            "Saturday", "Sunday">>

Meals(b, l, d) == [breakfast |-> b, lunch |-> l, dinner |-> d]

default_menu ==
    [day \in Days |->
        CASE day = "Monday"    -> Meals("Paratha & Chai", "Chicken Biryani", "Daal & Roti")
          [] day = "Tuesday"   -> Meals("Halwa Puri", "Beef Curry & Rice", "Vegetable Karahi")
          [] day = "Wednesday" -> Meals("Omelette & Toast", "Fish Curry", "Chicken Korma")
          [] day = "Thursday"  -> Meals("Nihari", "Pulao & Raita", "Mix Vegetable")
          [] day = "Friday"    -> Meals("Aloo Paratha", "Biryani Special", "BBQ Night")
          [] day = "Saturday"  -> Meals("French Toast", "Pasta & Salad", "Grilled Chicken")
          [] day = "Sunday"    -> Meals("Pancakes", "Home Style Curry", "Karahi & Naan")]

\* HostelHelper.__init__ after DataManager.__init__ on a fresh data directory
Init ==
    /\ users = user_dicts(default_users)
    /\ rooms = room_dicts(default_rooms)
    /\ menu = default_menu
    /\ complaints = <<>>
    /\ events = <<>>
    /\ attendance = <<>>
    /\ feedback = <<>>
    /\ current_user = <<>>
    /\ pc = "loop"
    /\ today = 0
    /\ notice = "WELCOME TO HOSTELHELPER"
    /\ nops = 0
    /\ files = [name \in FileNames |-> "valid"]
    /\ sessions = <<>>

---------------------------------------------------------------------------
(* Typed inputs: the tokens a person at the console enters at each prompt. *)

LoginNames == {"admin", "warden1", "sarah", " sarah ", "fatima", "aisha", "exit", "Exit"}
LoginPasswords == {"admin123", "warden123", "sarah123", "fatima123", "pw", "QUIT"}
MenuChoices == {"1", "2", "3", "4", "5", "6", "7", "8", "9", "10", "11", "12",
                "13", "14", "15", " 1 ", "abc", "", "help", "Help", "exit", "QUIT"}
SubMenuChoices == {"1", "2", "3", "4", "x"}
NumberChoices == {"0", "1", "2", "3", "-1", "x"}
AllocUsernames == {"sarah", "aisha", "ghost"}
AllocRooms == {"101", "102", "103", "999"}

\* submit_complaint: <<category choice, description>>
ComplaintInputs == { <<"1", "leak">>, <<"8", "leak">>, <<"1", "   ">> }

\* submit_feedback: <<category choice, feedback text, rating>>
FeedbackInputs ==
    { <<"1", "good", "5">>, <<"7", "good", "5">>, <<"1", "", "5">>,
      <<"1", "good", "0">>, <<"1", "good", "6">>, <<"1", "good", "abc">> }

\* add_new_user: <<username, password, full name, role choice, room number>>
NewUserInputs ==
    { <<"aisha", "pw", "Aisha Noor", "1", "103">>,
      <<"aisha", "pw", "Aisha Noor", "3", "">>,
      <<"exit", "pw", "", "1", "">>,
      <<"sarah", "pw", "Sarah Two", "1", "">>,
      <<"aisha", "pw", "Aisha Noor", "4", "">>,
      <<"", "", "", "2", "">> }

\* delete_user: <<username, confirmation>>
DeleteInputs ==
    { <<"sarah", "yes">>, <<"sarah", "YES">>, <<"sarah", "no">>,
      <<"admin", "yes">>, <<"ghost", "yes">>, <<"fatima", "yes">> }

\* add_new_room: <<room number, capacity>>
NewRoomInputs ==
    { <<"301", "1">>, <<"103", "1">>, <<"301", "0">>, <<"301", "-1">>,
      <<"301", "two">> }

\* update_mess_menu_admin: <<day choice, breakfast, lunch, dinner>>
MenuInputs ==
    { <<"1", "Poha", "", "Roti">>, <<"0", "Poha", "", "Roti">>,
      <<"8", "Poha", "", "Roti">>, <<"x", "Poha", "", "Roti">> }

\* add_event_admin: <<title, description, date, time, venue>>
EventInputs ==
    { <<"Eid Milan", "Tea and sweets", "2025-04-01", "17:00", "">>,
      <<"", "", "", "", "">> }

---------------------------------------------------------------------------
(* Session/Auth. *)

\* a variant that compares the username only
credentials_match_username_only(user, username, password) ==
    user.username = username

\* the test of the login loop: plaintext equality of both fields
credentials_match(user, username, password) ==
    user.username = username /\ user.password = password

\* authenticate: exit or quit typed for either field, before users are loaded
aborts_login(typed_username, typed_password) ==
    \/ Lower(get_input(typed_username)) \in {"exit", "quit"}
    \/ Lower(get_input(typed_password)) \in {"exit", "quit"}

\* a variant that binds the first stored user when nothing matches
authenticate_binds_unmatched(typed_username, typed_password) ==
    LET username == get_input(typed_username)
        password == get_input(typed_password)
        us == load_users
        hits == {i \in 1..Len(us) : credentials_match(us[i], username, password)}
    IN  IF Lower(username) \in {"exit", "quit"} \/ Lower(password) \in {"exit", "quit"}
        THEN [ok |-> FALSE, user |-> current_user, notice |-> notice]
        ELSE IF hits # {}
        THEN [ok |-> TRUE, user |-> <<us[Min(hits)]>>, notice |-> "Welcome back"]
        ELSE [ok |-> FALSE, user |-> IF us = <<>> THEN <<>> ELSE <<us[1]>>,
              notice |-> "Invalid credentials. Please try again."]

\* HostelHelper.authenticate: the return value, the user it binds and what it prints
authenticate(typed_username, typed_password) ==
    LET username == get_input(typed_username)
        password == get_input(typed_password)
        us == load_users
        hits == {i \in 1..Len(us) : credentials_match(us[i], username, password)}
    IN  IF Lower(username) \in {"exit", "quit"}
        THEN [ok |-> FALSE, user |-> current_user, notice |-> notice]
        ELSE IF Lower(password) \in {"exit", "quit"}
        THEN [ok |-> FALSE, user |-> current_user, notice |-> notice]
        ELSE IF hits # {}
        THEN [ok |-> TRUE, user |-> <<us[Min(hits)]>>, notice |-> "Welcome back"]
        ELSE [ok |-> FALSE, user |-> current_user,
              notice |-> "Invalid credentials. Please try again."]

\* run(): no current user -> authenticate; a False return breaks the loop
Authenticate ==
    /\ pc = "loop"
    /\ current_user = <<>>
    /\ \E tu \in LoginNames, tp \in LoginPasswords :
         LET r == authenticate(tu, tp)
         IN  /\ aborts_login(tu, tp) \/ ~load_fails("users")
             /\ current_user' = r.user
             /\ notice' = r.notice
             /\ pc' = IF r.ok THEN "loop" ELSE "exited"
    /\ UNCHANGED <<docs, today, sessions, nops>>

---------------------------------------------------------------------------
(* Menu Dispatcher. *)

\* a variant without the role test: the resident table for every user
handle_menu_choice_ungated(choice) ==
    CASE choice = "1" -> "view_hostel_info"
      [] choice = "2" -> "view_mess_menu"
      [] choice = "3" -> "view_events"
      [] choice = "4" -> "show_emergency_contacts"
      [] choice = "5" -> "show_wellness_tips"
      [] choice = "6" -> "show_daily_motivation"
      [] choice = "7"  -> "submit_complaint"
      [] choice = "8"  -> "view_my_complaints"
      [] choice = "9"  -> "mark_attendance"
      [] choice = "10" -> "view_room_details"
      [] choice = "11" -> "submit_feedback"
      [] choice = "12" -> "logout"
      [] OTHER -> "none"

\* HostelHelper.handle_menu_choice: the handler a choice reaches for the role
\* of the current user ("logout" for return False, "none" when nothing matches)
handle_menu_choice(choice) ==
    LET role == current_user[1].role
    IN  CASE choice = "1" -> "view_hostel_info"
          [] choice = "2" -> "view_mess_menu"
          [] choice = "3" -> "view_events"
          [] choice = "4" -> "show_emergency_contacts"
          [] choice = "5" -> "show_wellness_tips"
          [] choice = "6" -> "show_daily_motivation"
          [] OTHER ->
             IF role = "resident" THEN
                CASE choice = "7"  -> "submit_complaint"
                  [] choice = "8"  -> "view_my_complaints"
                  [] choice = "9"  -> "mark_attendance"
                  [] choice = "10" -> "view_room_details"
                  [] choice = "11" -> "submit_feedback"
                  [] choice = "12" -> "logout"
                  [] OTHER -> "none"
             ELSE IF role = "warden" THEN
                CASE choice = "7"  -> "view_all_complaints_warden"
                  [] choice = "8"  -> "resolve_complaints"
                  [] choice = "9"  -> "view_attendance_report"
                  [] choice = "10" -> "view_room_allocation"
                  [] choice = "11" -> "view_feedback_warden"
                  [] choice = "12" -> "show_statistics_dashboard"
                  [] choice = "13" -> "logout"
                  [] OTHER -> "none"
             ELSE IF role = "admin" THEN
                CASE choice = "7"  -> "manage_users_admin"
                  [] choice = "8"  -> "manage_rooms_admin"
                  [] choice = "9"  -> "update_mess_menu_admin"
                  [] choice = "10" -> "add_event_admin"
                  [] choice = "11" -> "view_all_complaints_warden"
                  [] choice = "12" -> "view_feedback_warden"
                  [] choice = "13" -> "show_statistics_dashboard"
                  [] choice = "14" -> "logout"
                  [] OTHER -> "none"
             ELSE "none"

\* HostelHelper.manage_users_admin: the sub-menu of option 7 (admin)
manage_users_admin(choice) ==
    CASE choice = "1" -> "add_new_user"
      [] choice = "2" -> "view_all_users"
      [] choice = "3" -> "delete_user"
      [] OTHER -> "back"

\* HostelHelper.manage_rooms_admin: the sub-menu of option 8 (admin)
manage_rooms_admin(choice) ==
    CASE choice = "1" -> "add_new_room"
      [] choice = "2" -> "view_all_rooms"
      [] choice = "3" -> "allocate_room"
      [] OTHER -> "back"

\* run(): a current user is bound and the loop is running (the menu is shown)
InMenu == pc = "loop" /\ current_user # <<>>

\* run(): the choices typed at the menu prompt, as get_input returns them,
\* that are neither exit/quit nor help and so go to handle_menu_choice
HandledChoices ==
    {get_input(t) : t \in {t \in MenuChoices :
                              Lower(get_input(t)) \notin {"exit", "quit", "help"}}}

\* run(): the handlers the menu prompt can reach for the current user
Reachable == {handle_menu_choice(choice) : choice \in HandledChoices}

\* the handlers whose first statements load documents, with the documents:
\* an exception of the load leaves the handler before it prints or writes
EntryLoads(handler) ==
    CASE handler = "view_mess_menu" -> {"menu"}
      [] handler = "view_events" -> {"events"}
      [] handler = "view_my_complaints" -> {"complaints"}
      [] handler = "mark_attendance" -> {"attendance"}
      [] handler = "view_room_details" ->
            IF Falsy(current_user[1].room_number) THEN {}
            ELSE IF \E i \in 1..Len(load_rooms) :
                        /\ load_rooms[i].room_number = current_user[1].room_number
                        /\ load_rooms[i].residents # <<>>
                 THEN {"rooms", "users"}
                 ELSE {"rooms"}
      [] handler = "view_all_complaints_warden" -> {"complaints"}
      [] handler = "resolve_complaints" -> {"complaints"}
      [] handler = "view_attendance_report" ->
            IF load_attendance = <<>> THEN {"attendance"} ELSE {"attendance", "users"}
      [] handler \in {"view_room_allocation", "view_all_rooms"} -> {"rooms", "users"}
      [] handler = "view_feedback_warden" -> {"feedback"}
      [] handler = "show_statistics_dashboard" ->
            {"complaints", "attendance", "feedback", "rooms", "users"}
      [] handler \in {"view_all_users", "delete_user"} -> {"users"}
      [] handler = "allocate_room" -> {"users", "rooms"}
      [] handler = "add_event_admin" -> {"events"}
      [] OTHER -> {}

\* the handlers that load a document only after their prompts were answered
\* acceptably, with the document
LateLoads(handler) ==
    CASE handler = "submit_complaint" -> {"complaints"}
      [] handler = "submit_feedback" -> {"feedback"}
      [] handler = "add_new_user" -> {"users"}
      [] handler = "add_new_room" -> {"rooms"}
      [] OTHER -> {}

EntryLoadFails(handler) == \E name \in EntryLoads(handler) : load_fails(name)

Dispatched(handler) == InMenu /\ handler \in Reachable /\ ~EntryLoadFails(handler)

\* the handlers the two admin sub-menus can reach
UsersHandlers == {manage_users_admin(get_input(typed)) : typed \in SubMenuChoices}
RoomsHandlers == {manage_rooms_admin(get_input(typed)) : typed \in SubMenuChoices}

\* option 7 of the admin menu followed by a choice of its sub-menu
DispatchedUsers(handler) ==
    /\ Dispatched("manage_users_admin")
    /\ handler \in UsersHandlers
    /\ ~EntryLoadFails(handler)

\* option 8 of the admin menu followed by a choice of its sub-menu
DispatchedRooms(handler) ==
    /\ Dispatched("manage_rooms_admin")
    /\ handler \in RoomsHandlers
    /\ ~EntryLoadFails(handler)

\* run(): exit or quit, in any letter case, at the menu prompt
Exit ==
    /\ InMenu
    /\ {"exit", "quit"} \cap {Lower(get_input(typed)) : typed \in MenuChoices} # {}
    /\ pc' = "exited"
    /\ current_user' = <<>>
    /\ notice' = "Thank you for using HostelHelper!"
    /\ UNCHANGED <<docs, today, sessions, nops>>

\* run(): help at the menu prompt
Help ==
    /\ InMenu
    /\ "help" \in {Lower(get_input(typed)) : typed \in MenuChoices}
    /\ UNCHANGED vars

\* a variant that reports the logout and keeps the current user
Logout_stays_bound ==
    /\ Dispatched("logout")
    /\ notice' = "Logged out successfully!"
    /\ UNCHANGED <<docs, current_user, pc, today, sessions, nops>>

\* run(): handle_menu_choice returned False
Logout ==
    /\ Dispatched("logout")
    /\ current_user' = <<>>
    /\ notice' = "Logged out successfully!"
    /\ UNCHANGED <<docs, pc, today, sessions, nops>>

\* handle_menu_choice / run(): the line printed in a pass whose token matches
\* no branch: the if-chain falls through to return True and run() prints only
\* after a False return, so there is none ("")
unmatched_choice_notice == ""

\* handle_menu_choice: no branch matches; the menu is shown again
NoMatch ==
    /\ Dispatched("none")
    /\ notice' = IF unmatched_choice_notice = "" THEN notice ELSE unmatched_choice_notice
    /\ UNCHANGED <<docs, current_user, pc, today, sessions, nops>>

\* manage_users_admin / manage_rooms_admin: option 4 or any other token
BackToMenu ==
    /\ (DispatchedUsers("back") \/ DispatchedRooms("back")) = TRUE
    /\ UNCHANGED vars

\* the calendar day advances between two prompts
Tick ==
    /\ pc = "loop"
    /\ nops < MaxOps
    /\ nops' = nops + 1
    /\ today' = today + 1
    /\ UNCHANGED <<docs, current_user, pc, notice, sessions>>

---------------------------------------------------------------------------
(* Feature Operations of the resident menu. *)

\* submit_complaint: category_map
complaint_category(choice) ==
    CASE choice = "1" -> "Maintenance"
      [] choice = "2" -> "Food/Mess"
      [] choice = "3" -> "Cleanliness"
      [] choice = "4" -> "Noise/Disturbance"
      [] choice = "5" -> "Security"
      [] choice = "6" -> "Wi-Fi/Internet"
      [] choice = "7" -> "Other"

ComplaintCategoryKeys == {"1", "2", "3", "4", "5", "6", "7"}

\* a variant that numbers from the complaints of the current user
new_complaint_id_from_own(loaded) ==
    FormatId("C", Cardinality({i \in 1..Len(loaded) :
                                  loaded[i].username = current_user[1].username}) + 1)

\* submit_complaint: f"C{len(complaints) + 1:04d}"
new_complaint_id(loaded) == FormatId("C", Len(loaded) + 1)

\* HostelHelper.submit_complaint
submit_complaint(typed_choice, typed_description) ==
    LET choice == get_input(typed_choice)
        description == get_input(typed_description)
        loaded == load_complaints
        new_complaint == Complaint(new_complaint_id(loaded), current_user[1].username,
                                   complaint_category(choice), description,
                                   "Open", None)
    IN  IF choice \notin ComplaintCategoryKeys THEN
            /\ notice' = "Invalid choice."
            /\ UNCHANGED <<docs, nops>>
        ELSE IF description = "" THEN
            /\ notice' = "Complaint description cannot be empty."
            /\ UNCHANGED <<docs, nops>>
        ELSE IF load_fails("complaints") THEN
            FALSE     \* load_complaints raises: see LoadError
        ELSE
            /\ nops < MaxOps
            /\ nops' = nops + 1
            /\ complaints' = complaint_dicts(Append(loaded, new_complaint))
            /\ notice' = "Complaint submitted successfully!"
            /\ files' = save_json("complaints")
            /\ UNCHANGED <<users, rooms, attendance, feedback, events, menu>>

SubmitComplaint ==
    /\ Dispatched("submit_complaint")
    /\ \E inp \in ComplaintInputs : submit_complaint(inp[1], inp[2])
    /\ UNCHANGED <<current_user, pc, today, sessions>>

\* a variant that compares the stored date with a date-and-time stamp
already_marked_datetime(records, username, day) ==
    \E i \in 1..Len(records) :
        records[i]["username"] = username /\ records[i]["date"] = DateTimeStr(day)

\* mark_attendance: any(record of this user for today)
already_marked(records, username, day) ==
    \E i \in 1..Len(records) :
        records[i]["username"] = username /\ records[i]["date"] = DateStr(day)

\* HostelHelper.mark_attendance
mark_attendance ==
    LET attendance_records == load_attendance
        new_record == [username |-> current_user[1].username,
                       date |-> DateStr(today),
                       time |-> "09:00:00",
                       status |-> "Present"]
    IN  IF already_marked(attendance_records, current_user[1].username, today) THEN
            /\ notice' = "You have already marked attendance for today"
            /\ UNCHANGED <<docs, nops>>
        ELSE
            /\ nops < MaxOps
            /\ nops' = nops + 1
            /\ attendance' = Append(attendance_records, new_record)
            /\ notice' = "Attendance marked successfully"
            /\ files' = save_json("attendance")
            /\ UNCHANGED <<users, rooms, complaints, feedback, events, menu>>

MarkAttendance ==
    /\ Dispatched("mark_attendance")
    /\ mark_attendance
    /\ UNCHANGED <<current_user, pc, today, sessions>>

\* submit_feedback: category_map
feedback_category(choice) ==
    CASE choice = "1" -> "Facilities"
      [] choice = "2" -> "Food"
      [] choice = "3" -> "Staff"
      [] choice = "4" -> "Cleanliness"
      [] choice = "5" -> "Security"
      [] choice = "6" -> "General"

FeedbackCategoryKeys == {"1", "2", "3", "4", "5", "6"}

\* HostelHelper.submit_feedback
submit_feedback(typed_choice, typed_text, typed_rating) ==
    LET choice == get_input(typed_choice)
        feedback_text == get_input(typed_text)
        rating == get_input(typed_rating)
        feedback_records == load_feedback
    IN  IF choice \notin FeedbackCategoryKeys THEN
            /\ notice' = "Invalid choice."
            /\ UNCHANGED <<docs, nops>>
        ELSE IF feedback_text = "" THEN
            /\ notice' = "Feedback cannot be empty."
            /\ UNCHANGED <<docs, nops>>
        ELSE IF ~IsInt(rating) \/ IntOf(rating) < 1 \/ IntOf(rating) > 5 THEN
            /\ notice' = "Invalid rating. Please enter a number between 1-5."
            /\ UNCHANGED <<docs, nops>>
        ELSE IF load_fails("feedback") THEN
            FALSE     \* load_feedback raises: see LoadError
        ELSE
            /\ nops < MaxOps
            /\ nops' = nops + 1
            /\ feedback' = Append(feedback_records,
                                  [username |-> current_user[1].username,
                                   category |-> feedback_category(choice),
                                   feedback |-> feedback_text,
                                   rating |-> IntOf(rating),
                                   date |-> DateTimeStr(today)])
            /\ notice' = "Thank you for your feedback! We appreciate your input."
            /\ files' = save_json("feedback")
            /\ UNCHANGED <<users, rooms, complaints, attendance, events, menu>>

SubmitFeedback ==
    /\ Dispatched("submit_feedback")
    /\ \E inp \in FeedbackInputs : submit_feedback(inp[1], inp[2], inp[3])
    /\ UNCHANGED <<current_user, pc, today, sessions>>

\* HostelHelper.view_room_details: the status line it prints, if any
view_room_details ==
    LET loaded == load_rooms
        mine == {i \in 1..Len(loaded) :
                    loaded[i].room_number = current_user[1].room_number}
    IN  IF Falsy(current_user[1].room_number) THEN "No room assigned to you yet."
        ELSE IF mine = {} THEN "Room information not found."
        ELSE notice

ViewRoomDetails ==
    /\ Dispatched("view_room_details")
    /\ notice' = view_room_details
    /\ UNCHANGED <<docs, current_user, pc, today, sessions, nops>>

ViewMyComplaints ==
    /\ Dispatched("view_my_complaints")
    /\ UNCHANGED vars

---------------------------------------------------------------------------
(* Screens every role reaches (options 1 to 6): no document is written. *)

ViewHostelInfo ==
    /\ Dispatched("view_hostel_info")
    /\ UNCHANGED vars

ViewMessMenu ==
    /\ Dispatched("view_mess_menu")
    /\ UNCHANGED vars

ViewEvents ==
    /\ Dispatched("view_events")
    /\ UNCHANGED vars

ShowEmergencyContacts ==
    /\ Dispatched("show_emergency_contacts")
    /\ UNCHANGED vars

ShowWellnessTips ==
    /\ Dispatched("show_wellness_tips")
    /\ UNCHANGED vars

ShowDailyMotivation ==
    /\ Dispatched("show_daily_motivation")
    /\ UNCHANGED vars

---------------------------------------------------------------------------
(* Feature Operations of the warden menu. *)

\* a variant that moves the complaint to In Progress
resolved_in_progress(complaint, now) ==
    [complaint EXCEPT !.status = "In Progress", !.resolved_date = now]

\* resolve_complaints: the selected complaint after it is marked
resolved(complaint, now) ==
    [complaint EXCEPT !.status = "Resolved", !.resolved_date = now]

\* resolve_complaints: the line printed for a typed complaint number ("" when
\* the handler returns without printing: 0 cancels)
resolve_complaints_notice(typed_choice) ==
    LET loaded == load_complaints
        open_complaints ==
            FilterIdx(Len(loaded), {i \in 1..Len(loaded) : loaded[i].status = "Open"})
        choice == get_input(typed_choice)
    IN  IF open_complaints = <<>> THEN "No open complaints at the moment."
        ELSE IF ~IsInt(choice) THEN "Invalid choice."
        ELSE IF IntOf(choice) = 0 THEN ""
        ELSE IF IntOf(choice) < 1 \/ IntOf(choice) > Len(open_complaints)
        THEN "Invalid choice."
        ELSE "Complaint marked as resolved!"

\* HostelHelper.resolve_complaints
resolve_complaints(typed_choice) ==
    LET loaded == load_complaints
        open_complaints ==
            FilterIdx(Len(loaded), {i \in 1..Len(loaded) : loaded[i].status = "Open"})
        choice == get_input(typed_choice)
        printed == resolve_complaints_notice(typed_choice)
    IN  IF printed = "" THEN
            UNCHANGED <<docs, nops, notice>>
        ELSE IF printed # "Complaint marked as resolved!" THEN
            /\ notice' = printed
            /\ UNCHANGED <<docs, nops>>
        ELSE
            LET selected == open_complaints[IntOf(choice)]
                updated == [loaded EXCEPT ![selected] =
                                resolved(loaded[selected], DateTimeStr(today))]
            IN  /\ nops < MaxOps
                /\ nops' = nops + 1
                /\ complaints' = complaint_dicts(updated)
                /\ notice' = printed
                /\ files' = save_json("complaints")
                /\ UNCHANGED <<users, rooms, attendance, feedback, events, menu>>

ResolveComplaints ==
    /\ Dispatched("resolve_complaints")
    /\ \E tc \in NumberChoices : resolve_complaints(tc)
    /\ UNCHANGED <<current_user, pc, today, sessions>>

ViewAllComplaintsWarden ==
    /\ Dispatched("view_all_complaints_warden")
    /\ UNCHANGED vars

ViewAttendanceReport ==
    /\ Dispatched("view_attendance_report")
    /\ UNCHANGED vars

\* view_room_allocation, also reached as view_all_rooms from the admin sub-menu
ViewRoomAllocation ==
    /\ (Dispatched("view_room_allocation") \/ DispatchedRooms("view_all_rooms")) = TRUE
    /\ UNCHANGED vars

ViewFeedbackWarden ==
    /\ Dispatched("view_feedback_warden")
    /\ UNCHANGED vars

\* __main__: "except Exception as e" around run()
ErrorNotice == "An error occurred"

RECURSIVE sum_ratings(_)
\* sum(f['rating'] for f in feedback_records)
sum_ratings(records) ==
    IF records = <<>> THEN 0
    ELSE records[1]["rating"] + sum_ratings(Tail(records))

RECURSIVE sum_field(_, _)
\* sum(r.capacity for r in rooms), sum(r.occupied for r in rooms)
sum_field(loaded, field) ==
    IF loaded = <<>> THEN 0
    ELSE loaded[1][field] + sum_field(Tail(loaded), field)

\* a variant that counts the records of every day
today_attendance_all_days(records, day) == Len(records)

\* sum(1 for r in attendance_records if r['date'] == today)
today_attendance(records, day) ==
    Cardinality({i \in 1..Len(records) : records[i]["date"] = DateStr(day)})

\* len([x for x in loaded if x[field] == value])
count_where(loaded, field, value) ==
    Cardinality({i \in 1..Len(loaded) : loaded[i][field] = value})

\* a / b of two counts, kept as the exact fraction
Ratio(a, b) == [num |-> a, den |-> b]

\* (a / b) * 100
Percent(a, b) == [num |-> a * 100, den |-> b]

\* a rate the dashboard leaves out
NotComputed == [num |-> 0, den |-> 0]

\* the aggregates of show_statistics_dashboard from the loaded collections
statistics(loaded_complaints, attendance_records, feedback_records, loaded_rooms, loaded_users) ==
    LET residents == count_where(loaded_users, "role", "resident")
        resolved_complaints == count_where(loaded_complaints, "status", "Resolved")
    IN  [total_capacity |-> sum_field(loaded_rooms, "capacity"),
         total_occupied |-> sum_field(loaded_rooms, "occupied"),
         avg_rating |-> IF feedback_records # <<>>
                        THEN Ratio(sum_ratings(feedback_records), Len(feedback_records))
                        ELSE Ratio(0, 1),
         resolution_rate |-> IF loaded_complaints # <<>>
                             THEN Percent(resolved_complaints, Len(loaded_complaints))
                             ELSE NotComputed,
         attendance_rate |-> IF residents # 0
                             THEN Percent(today_attendance(attendance_records, today),
                                          residents)
                             ELSE NotComputed]

\* HostelHelper.show_statistics_dashboard: what it computes
show_statistics_dashboard ==
    statistics(load_complaints, load_attendance, load_feedback, load_rooms, load_users)

\* the room occupancy line divides by total_capacity before the complaint and
\* attendance sections: with no capacity the ZeroDivisionError leaves run()
ShowStatisticsDashboard ==
    /\ Dispatched("show_statistics_dashboard")
    /\ IF show_statistics_dashboard.total_capacity = 0
       THEN /\ pc' = "exited"
            /\ current_user' = <<>>
            /\ notice' = ErrorNotice
            /\ UNCHANGED <<docs, today, sessions, nops>>
       ELSE UNCHANGED vars

---------------------------------------------------------------------------
(* Feature Operations of the admin menu. *)

\* add_new_user: role_map
role_of_choice(choice) ==
    CASE choice = "1" -> "resident"
      [] choice = "2" -> "warden"
      [] choice = "3" -> "admin"

RoleKeys == {"1", "2", "3"}

\* a variant that never finds the username
username_exists_never(loaded, username) == FALSE

\* add_new_user: any(u.username == username for u in users)
username_exists(loaded, username) ==
    \E i \in 1..Len(loaded) : loaded[i].username = username

\* HostelHelper.add_new_user
add_new_user(typed_username, typed_password, typed_full_name, typed_role, typed_room) ==
    LET username == get_input(typed_username)
        password == get_input(typed_password)
        full_name == get_input(typed_full_name)
        role_choice == get_input(typed_role)
        role == role_of_choice(role_choice)
        room_number == IF role = "resident" /\ get_input(typed_room) # ""
                       THEN get_input(typed_room) ELSE None
        loaded == load_users
    IN  IF role_choice \notin RoleKeys THEN
            /\ notice' = "Invalid role."
            /\ UNCHANGED <<docs, nops>>
        ELSE IF load_fails("users") THEN
            FALSE     \* load_users raises: see LoadError
        ELSE IF username_exists(loaded, username) THEN
            /\ notice' = "Username already exists."
            /\ UNCHANGED <<docs, nops>>
        ELSE
            /\ nops < MaxOps
            /\ nops' = nops + 1
            /\ users' = user_dicts(Append(loaded, User(username, password, role,
                                                  room_number, full_name)))
            /\ notice' = "User added successfully!"
            /\ files' = save_json("users")
            /\ UNCHANGED <<rooms, complaints, attendance, feedback, events, menu>>

AddNewUser ==
    /\ DispatchedUsers("add_new_user")
    /\ \E inp \in NewUserInputs : add_new_user(inp[1], inp[2], inp[3], inp[4], inp[5])
    /\ UNCHANGED <<current_user, pc, today, sessions>>

ViewAllUsers ==
    /\ DispatchedUsers("view_all_users")
    /\ UNCHANGED vars

\* a variant without the lookup of the typed username
delete_user_without_lookup(typed_username, typed_confirm) ==
    LET username == get_input(typed_username)
        confirm == get_input(typed_confirm)
        loaded == load_users
        kept == FilterIdx(Len(loaded),
                         {i \in 1..Len(loaded) : loaded[i].username # username})
    IN  IF username = current_user[1].username THEN
            /\ notice' = "You cannot delete yourself!"
            /\ UNCHANGED <<docs, nops>>
        ELSE IF Lower(confirm) = "yes" THEN
            /\ nops < MaxOps
            /\ nops' = nops + 1
            /\ users' = [i \in 1..Len(kept) |-> User_to_dict(loaded[kept[i]])]
            /\ notice' = "User deleted successfully!"
            /\ files' = save_json("users")
            /\ UNCHANGED <<rooms, complaints, attendance, feedback, events, menu>>
        ELSE
            /\ notice' = "Deletion cancelled."
            /\ UNCHANGED <<docs, nops>>

\* a variant without the comparison with the logged-in user
delete_user_any(typed_username, typed_confirm) ==
    LET username == get_input(typed_username)
        confirm == get_input(typed_confirm)
        loaded == load_users
        kept == FilterIdx(Len(loaded),
                         {i \in 1..Len(loaded) : loaded[i].username # username})
    IN  IF ~username_exists(loaded, username) THEN
            /\ notice' = "User not found."
            /\ UNCHANGED <<docs, nops>>
        ELSE IF Lower(confirm) = "yes" THEN
            /\ nops < MaxOps
            /\ nops' = nops + 1
            /\ users' = [i \in 1..Len(kept) |-> User_to_dict(loaded[kept[i]])]
            /\ notice' = "User deleted successfully!"
            /\ files' = save_json("users")
            /\ UNCHANGED <<rooms, complaints, attendance, feedback, events, menu>>
        ELSE
            /\ notice' = "Deletion cancelled."
            /\ UNCHANGED <<docs, nops>>

\* HostelHelper.delete_user
delete_user(typed_username, typed_confirm) ==
    LET username == get_input(typed_username)
        confirm == get_input(typed_confirm)
        loaded == load_users
        kept == FilterIdx(Len(loaded),
                         {i \in 1..Len(loaded) : loaded[i].username # username})
    IN  IF ~username_exists(loaded, username) THEN
            /\ notice' = "User not found."
            /\ UNCHANGED <<docs, nops>>
        ELSE IF username = current_user[1].username THEN
            /\ notice' = "You cannot delete yourself!"
            /\ UNCHANGED <<docs, nops>>
        ELSE IF Lower(confirm) = "yes" THEN
            /\ nops < MaxOps
            /\ nops' = nops + 1
            /\ users' = [i \in 1..Len(kept) |-> User_to_dict(loaded[kept[i]])]
            /\ notice' = "User deleted successfully!"
            /\ files' = save_json("users")
            /\ UNCHANGED <<rooms, complaints, attendance, feedback, events, menu>>
        ELSE
            /\ notice' = "Deletion cancelled."
            /\ UNCHANGED <<docs, nops>>

DeleteUser ==
    /\ DispatchedUsers("delete_user")
    /\ \E inp \in DeleteInputs : delete_user(inp[1], inp[2])
    /\ UNCHANGED <<current_user, pc, today, sessions>>

\* a variant that also accepts a capacity of 0
valid_capacity_nonnegative(capacity) == IsInt(capacity) /\ IntOf(capacity) >= 0

\* add_new_room: int(capacity) succeeds and capacity >= 1
valid_capacity(capacity) == IsInt(capacity) /\ IntOf(capacity) >= 1

\* HostelHelper.add_new_room
add_new_room(typed_room, typed_capacity) ==
    LET room_number == get_input(typed_room)
        capacity == get_input(typed_capacity)
        loaded == load_rooms
    IN  IF ~valid_capacity(capacity) THEN
            /\ notice' = "Invalid capacity."
            /\ UNCHANGED <<docs, nops>>
        ELSE IF load_fails("rooms") THEN
            FALSE     \* load_rooms raises: see LoadError
        ELSE IF \E i \in 1..Len(loaded) : loaded[i].room_number = room_number THEN
            /\ notice' = "Room already exists."
            /\ UNCHANGED <<docs, nops>>
        ELSE
            /\ nops < MaxOps
            /\ nops' = nops + 1
            /\ rooms' = room_dicts(Append(loaded, Room(room_number, IntOf(capacity), 0, <<>>)))
            /\ notice' = "Room added successfully!"
            /\ files' = save_json("rooms")
            /\ UNCHANGED <<users, complaints, attendance, feedback, events, menu>>

AddNewRoom ==
    /\ DispatchedRooms("add_new_room")
    /\ \E inp \in NewRoomInputs : add_new_room(inp[1], inp[2])
    /\ UNCHANGED <<current_user, pc, today, sessions>>

\* a variant that appends and counts without looking at the residents
allocated_room_unchecked(room, username) ==
    [room EXCEPT !.residents = Append(room.residents, username),
                 !.occupied = room.occupied + 1]

\* a variant that counts every call, listed or not
allocated_room_always_counts(room, username) ==
    IF \E i \in 1..Len(room.residents) : room.residents[i] = username
    THEN [room EXCEPT !.occupied = room.occupied + 1]
    ELSE [room EXCEPT !.residents = Append(room.residents, username),
                      !.occupied = room.occupied + 1]

\* allocate_room, "# Update room": the room object after the allocation
allocated_room(room, username) ==
    IF \E i \in 1..Len(room.residents) : room.residents[i] = username
    THEN room
    ELSE [room EXCEPT !.residents = Append(room.residents, username),
                      !.occupied = room.occupied + 1]

\* HostelHelper.allocate_room
allocate_room(typed_username, typed_room) ==
    LET username == get_input(typed_username)
        room_number == get_input(typed_room)
        loaded_users == load_users
        loaded_rooms == load_rooms
        user_hits == {i \in 1..Len(loaded_users) :
                         loaded_users[i].username = username}
        room_hits == {i \in 1..Len(loaded_rooms) :
                         loaded_rooms[i].room_number = room_number}
    IN  IF user_hits = {} THEN
            /\ notice' = "User not found."
            /\ UNCHANGED <<docs, nops>>
        ELSE IF room_hits = {} THEN
            /\ notice' = "Room not found."
            /\ UNCHANGED <<docs, nops>>
        ELSE IF ~is_available(loaded_rooms[Min(room_hits)]) THEN
            /\ notice' = "Room is full."
            /\ UNCHANGED <<docs, nops>>
        ELSE
            LET u == Min(user_hits)
                r == Min(room_hits)
            IN  /\ nops < MaxOps
                /\ nops' = nops + 1
                /\ users' = user_dicts([loaded_users EXCEPT ![u].room_number = room_number])
                /\ rooms' = room_dicts([loaded_rooms EXCEPT
                                      ![r] = allocated_room(loaded_rooms[r], username)])
                /\ notice' = "Room allocated!"
                /\ files' = [files EXCEPT !["users"] = "valid", !["rooms"] = "valid"]
                /\ UNCHANGED <<complaints, attendance, feedback, events, menu>>

AllocateRoom ==
    /\ DispatchedRooms("allocate_room")
    /\ \E tu \in AllocUsernames, tr \in AllocRooms : allocate_room(tu, tr)
    /\ UNCHANGED <<current_user, pc, today, sessions>>

\* HostelHelper.update_mess_menu_admin
update_mess_menu_admin(typed_day, typed_breakfast, typed_lunch, typed_dinner) ==
    LET choice == get_input(typed_day)
    IN  IF ~IsInt(choice) \/ IntOf(choice) - 1 < 0 \/ IntOf(choice) - 1 >= 7 THEN
            /\ notice' = "Invalid choice."
            /\ UNCHANGED <<docs, nops>>
        ELSE IF load_fails("menu") THEN
            \* load_menu raises inside the try: UnicodeDecodeError is a
            \* ValueError and the handler's own except clause reports it
            /\ notice' = "Invalid choice."
            /\ UNCHANGED <<docs, nops>>
        ELSE
            /\ nops < MaxOps
            /\ nops' = nops + 1
            /\ menu' = (DaySeq[IntOf(choice)] :>
                            Meals(get_input(typed_breakfast), get_input(typed_lunch),
                                  get_input(typed_dinner))) @@ load_menu
            /\ notice' = "Menu updated successfully!"
            /\ files' = save_json("menu")
            /\ UNCHANGED <<users, rooms, complaints, attendance, feedback, events>>

UpdateMessMenuAdmin ==
    /\ Dispatched("update_mess_menu_admin")
    /\ \E inp \in MenuInputs : update_mess_menu_admin(inp[1], inp[2], inp[3], inp[4])
    /\ UNCHANGED <<current_user, pc, today, sessions>>

\* HostelHelper.add_event_admin
add_event_admin(typed_title, typed_description, typed_date, typed_time, typed_venue) ==
    LET loaded == load_events
        event_id == FormatId("E", Len(loaded) + 1)
    IN  /\ nops < MaxOps
        /\ nops' = nops + 1
        /\ events' = event_dicts(Append(loaded, Event(event_id, get_input(typed_title),
                                                get_input(typed_description),
                                                get_input(typed_date),
                                                get_input(typed_time),
                                                get_input(typed_venue))))
        /\ notice' = "Event added successfully!"
        /\ files' = save_json("events")
        /\ UNCHANGED <<users, rooms, complaints, attendance, feedback, menu>>

AddEventAdmin ==
    /\ Dispatched("add_event_admin")
    /\ \E inp \in EventInputs : add_event_admin(inp[1], inp[2], inp[3], inp[4], inp[5])
    /\ UNCHANGED <<current_user, pc, today, sessions>>

---------------------------------------------------------------------------
(* The run() loop: one pass per step. *)

Next ==
    \/ Authenticate
    \/ Exit
    \/ Help
    \/ Logout
    \/ NoMatch
    \/ BackToMenu
    \/ Tick
    \/ ViewHostelInfo
    \/ ViewMessMenu
    \/ ViewEvents
    \/ ShowEmergencyContacts
    \/ ShowWellnessTips
    \/ ShowDailyMotivation
    \/ SubmitComplaint
    \/ ViewMyComplaints
    \/ MarkAttendance
    \/ ViewRoomDetails
    \/ SubmitFeedback
    \/ ViewAllComplaintsWarden
    \/ ResolveComplaints
    \/ ViewAttendanceReport
    \/ ViewRoomAllocation
    \/ ViewFeedbackWarden
    \/ ShowStatisticsDashboard
    \/ AddNewUser
    \/ ViewAllUsers
    \/ DeleteUser
    \/ AddNewRoom
    \/ AllocateRoom
    \/ UpdateMessMenuAdmin
    \/ AddEventAdmin

Spec == Init /\ [][Next]_vars

---------------------------------------------------------------------------
(* The complaint desk of a data directory in long use: the run() loop started
   on the complaints document that earlier runs have left behind. *)

\* the largest number of complaints stored by earlier runs
MaxStored == 9998

StoredCounts == {0, 1, MaxStored}

\* complaints.json after n submissions by a resident, all of them resolved
\* since, the latest one excepted
stored_complaints(n) ==
    [i \in 1..n |->
        LET submitted == Complaint(FormatId("C", i), "sarah", complaint_category("1"),
                                   "leak", "Open", DateTimeStr(0))
        IN  Complaint_to_dict(IF i < n THEN resolved(submitted, DateTimeStr(0))
                              ELSE submitted)]

InitIds ==
    /\ users = user_dicts(default_users)
    /\ rooms = room_dicts(default_rooms)
    /\ menu = default_menu
    /\ \E n \in StoredCounts : complaints = stored_complaints(n)
    /\ events = <<>>
    /\ attendance = <<>>
    /\ feedback = <<>>
    /\ current_user = <<>>
    /\ pc = "loop"
    /\ today = 0
    /\ notice = "WELCOME TO HOSTELHELPER"
    /\ nops = 0
    /\ files = [name \in FileNames |-> "valid"]
    /\ sessions = <<>>

NextIds ==
    \/ Authenticate
    \/ Exit
    \/ Logout
    \/ SubmitComplaint
    \/ ViewMyComplaints
    \/ ViewAllComplaintsWarden

SpecIds == InitIds /\ [][NextIds]_vars

---------------------------------------------------------------------------
(* Steps of single operations, for the properties below.  A step property
   [][A]_vars says nothing about steps that leave every variable as it is, so
   the properties quantifying over the typed inputs are stated for the steps
   with vars' # vars. *)

ExitWords == {"exit", "quit"}

\* a step of the handler, whatever is typed at its prompts: the session and
\* the clock stay as they are
Handling(handler) ==
    /\ UNCHANGED <<current_user, pc, today, sessions>>
    /\ Dispatched(handler)

\* the same for a handler of the user management sub-menu
HandlingUsers(handler) ==
    /\ UNCHANGED <<current_user, pc, today, sessions>>
    /\ DispatchedUsers(handler)

\* the same for a handler of the room management sub-menu
HandlingRooms(handler) ==
    /\ UNCHANGED <<current_user, pc, today, sessions>>
    /\ DispatchedRooms(handler)

\* the stored users / rooms with a given key
UsersNamed(us, username) == {i \in 1..Len(us) : us[i]["username"] = username}
RoomsNumbered(rs, room_number) == {i \in 1..Len(rs) : rs[i]["room_number"] = room_number}

---------------------------------------------------------------------------
(* C1: authenticate matches the submitted pair against the stored users. *)

\* what the contract of authenticate asks for one typed pair
AuthContract(tu, tp) ==
    LET username == get_input(tu)
        password == get_input(tp)
        matching == {i \in 1..Len(users) :
                        /\ users[i]["username"] = username
                        /\ users[i]["password"] = password}
        r == authenticate(tu, tp)
    IN  IF matching # {}
        THEN r.ok /\ r.user = <<User_from_dict(users[Min(matching)])>>
        ELSE ~r.ok /\ r.user = <<>>

\* C1 as stated: for every (username, password) pair submitted at the login
\* prompt, authenticate succeeds and binds the first stored user with exactly
\* that username and password if there is one, and otherwise fails and leaves
\* the current user unbound.
C1_AuthEveryPair ==
    (pc = "loop" /\ current_user = <<>>) =>
        \A tu \in LoginNames, tp \in LoginPasswords : AuthContract(tu, tp)

\* C1 amended: the contract holds for every pair in which neither submitted
\* value is exit or quit (in any letter case); a pair with such a value fails
\* and binds nobody, even when a stored user has exactly these credentials.
C1_AuthExceptExitWords ==
    (pc = "loop" /\ current_user = <<>>) =>
        \A tu \in LoginNames, tp \in LoginPasswords :
            IF Lower(get_input(tu)) \in ExitWords \/ Lower(get_input(tp)) \in ExitWords
            THEN ~authenticate(tu, tp).ok /\ authenticate(tu, tp).user = <<>>
            ELSE AuthContract(tu, tp)

\* a login has succeeded while a user named exit is stored
C1_Witness ==
    /\ current_user # <<>>
    /\ notice = "Welcome back"
    /\ UsersNamed(users, "exit") # {}

---------------------------------------------------------------------------
(* C2: one attendance record per user and day. *)

UniqueAttendance(records) ==
    \A i, j \in 1..Len(records) :
        (records[i]["username"] = records[j]["username"]
            /\ records[i]["date"] = records[j]["date"]) => i = j

HasRecordToday ==
    \E i \in 1..Len(attendance) :
        /\ attendance[i]["username"] = current_user[1].username
        /\ attendance[i]["date"] = DateStr(today)

\* C2: starting from the empty attendance collection, every step leaves at
\* most one record per (username, date), and a mark_attendance by a user who
\* already has a record for the current date leaves the collection unchanged
\* and reports "already marked".
C2_AttendanceOncePerDay ==
    [][ /\ UniqueAttendance(attendance')
        /\ (InMenu /\ HasRecordToday /\ MarkAttendance) =>
              /\ attendance' = attendance
              /\ notice' = "You have already marked attendance for today" ]_vars

\* a second mark on the same day has been turned down
C2_Witness ==
    /\ notice = "You have already marked attendance for today"
    /\ current_user # <<>>
    /\ HasRecordToday

---------------------------------------------------------------------------
(* C3: complaint ids grow with every submission. *)

IdsStrictlyIncreasing(cs) ==
    \A i, j \in 1..Len(cs) :
        i < j => /\ IdNumber(cs[i]["complaint_id"]) < IdNumber(cs[j]["complaint_id"])
                 /\ cs[i]["complaint_id"] # cs[j]["complaint_id"]

\* a step in which submit_complaint stored a complaint
SubmittedStep ==
    /\ nops' = nops + 1
    /\ Handling("submit_complaint")
    /\ \E inp \in ComplaintInputs : submit_complaint(inp[1], inp[2])

\* C3: the stored complaint ids are pairwise distinct and their numbers
\* strictly increase in the order of submission, whatever operations run in
\* between; every successful submission raises the complaint count by exactly
\* one and no other step changes it.
C3_IdsIncreaseCountGrows ==
    [][ /\ IdsStrictlyIncreasing(complaints')
        /\ Len(complaints') = Len(complaints) + (IF SubmittedStep THEN 1 ELSE 0) ]_vars

\* two complaints have been submitted
C3_Witness ==
    /\ Len(complaints) = 2
    /\ notice = "Complaint submitted successfully!"

---------------------------------------------------------------------------
(* C4: a full room takes nobody. *)

RoomFull(room_number) ==
    \E i \in RoomsNumbered(rooms, room_number) :
        rooms[i]["occupied"] = rooms[i]["capacity"]

\* C4: an allocate_room to an existing room whose occupied equals its capacity
\* is rejected (room full, or user not found) and changes neither the Room
\* nor the User collection.
C4_FullRoomRejected ==
    [][ (vars' # vars /\ HandlingRooms("allocate_room")) =>
        \A tu \in AllocUsernames, tr \in AllocRooms :
          (RoomFull(get_input(tr)) /\ allocate_room(tu, tr)) =>
              /\ users' = users
              /\ rooms' = rooms
              /\ notice' = IF UsersNamed(users, get_input(tu)) = {}
                           THEN "User not found." ELSE "Room is full." ]_vars

\* an allocation to a room filled by an earlier allocation has been rejected
C4_Witness ==
    /\ notice = "Room is full."
    /\ \E i \in RoomsNumbered(rooms, "102") : rooms[i]["occupied"] = 2

---------------------------------------------------------------------------
(* C5, C6: what a successful allocation does to the room. *)

RoomOf(rs, room_number) == rs[Min(RoomsNumbered(rs, room_number))]
UserOf(us, username) == us[Min(UsersNamed(us, username))]

Listed(room, username) ==
    \E i \in 1..Len(room["residents"]) : room["residents"][i] = username

\* the user exists and the room exists with a free bed
CanAllocate(username, room_number) ==
    /\ UsersNamed(users, username) # {}
    /\ RoomsNumbered(rooms, room_number) # {}
    /\ RoomOf(rooms, room_number)["occupied"] < RoomOf(rooms, room_number)["capacity"]

\* C5 as stated: every allocate_room for an existing user and an existing
\* room with occupied < capacity raises the room's occupied by exactly 1 and
\* sets the user's room_number, also on a repeated call with the same arguments.
C5_EveryCallCounts ==
    [][ (vars' # vars /\ HandlingRooms("allocate_room")) =>
        \A tu \in AllocUsernames, tr \in AllocRooms :
          (CanAllocate(get_input(tu), get_input(tr)) /\ allocate_room(tu, tr)) =>
              /\ RoomOf(rooms', get_input(tr))["occupied"]
                    = RoomOf(rooms, get_input(tr))["occupied"] + 1
              /\ UserOf(users', get_input(tu))["room_number"] = get_input(tr) ]_vars

\* C5 amended: every such call sets the user's room_number to the room; it
\* raises occupied by exactly 1 and appends the username when the username is
\* not yet among the room's residents, and leaves the room as it is when the
\* username is already listed (as on a repeated call).
C5_CountsOncePerResident ==
    [][ (vars' # vars /\ HandlingRooms("allocate_room")) =>
        \A tu \in AllocUsernames, tr \in AllocRooms :
          (CanAllocate(get_input(tu), get_input(tr)) /\ allocate_room(tu, tr)) =>
              LET before == RoomOf(rooms, get_input(tr))
                  after == RoomOf(rooms', get_input(tr))
              IN  /\ UserOf(users', get_input(tu))["room_number"] = get_input(tr)
                  /\ IF Listed(before, get_input(tu))
                     THEN after = before
                     ELSE /\ after["occupied"] = before["occupied"] + 1
                          /\ after["residents"]
                                = Append(before["residents"], get_input(tu)) ]_vars

\* aisha, already listed in room 102 by the seed, has been allocated to it
C5_Witness ==
    /\ notice = "Room allocated!"
    /\ UsersNamed(users, "aisha") # {}
    /\ UserOf(users, "aisha")["room_number"] = "102"
    /\ RoomOf(rooms, "102")["occupied"] = 1
    /\ RoomOf(rooms, "102")["residents"] = <<"aisha">>

\* C6: after a successful allocate_room the username is in the residents of
\* that room exactly once, however often the same call is repeated.
C6_ListedExactlyOnce ==
    [][ (nops' = nops + 1 /\ HandlingRooms("allocate_room")) =>
        \A tu \in AllocUsernames, tr \in AllocRooms :
          allocate_room(tu, tr) =>
              Count(RoomOf(rooms', get_input(tr))["residents"], get_input(tu)) = 1 ]_vars

\* sarah has been allocated to room 103 twice: two writes, and nothing but
\* her room and room 103 differs from the seed
C6_Witness ==
    /\ notice = "Room allocated!"
    /\ nops = 2
    /\ today = 0
    /\ RoomOf(rooms, "103")["residents"] = <<"sarah">>
    /\ [rooms EXCEPT ![Min(RoomsNumbered(rooms, "103"))] = default_rooms[3]]
          = room_dicts(default_rooms)
    /\ [users EXCEPT ![Min(UsersNamed(users, "sarah"))]["room_number"] = "101"]
          = user_dicts(default_users)
    /\ menu = default_menu
    /\ events = <<>>

---------------------------------------------------------------------------
(* C7: the rooms stay well-formed. *)

\* C7: every stored room has capacity >= 1, 0 <= occupied <= capacity and
\* occupied equal to the number of its residents.
C7_RoomsWellFormed ==
    \A i \in 1..Len(rooms) :
        /\ rooms[i]["capacity"] >= 1
        /\ 0 <= rooms[i]["occupied"]
        /\ rooms[i]["occupied"] <= rooms[i]["capacity"]
        /\ rooms[i]["occupied"] = Len(rooms[i]["residents"])

\* a room has been added and an allocation has filled room 102
C7_Witness ==
    /\ RoomsNumbered(rooms, "301") # {}
    /\ RoomOf(rooms, "301")["occupied"] = 0
    /\ \E i \in 1..Len(rooms) :
          /\ rooms[i]["residents"] # default_rooms[Min({i, 5})].residents
          /\ rooms[i]["occupied"] = rooms[i]["capacity"]

---------------------------------------------------------------------------
(* C8: the username is a key of the User collection. *)

UniqueUsernames(us) ==
    \A i, j \in 1..Len(us) : us[i]["username"] = us[j]["username"] => i = j

\* C8: no two stored users have the same username, before and after every
\* step, and an add_new_user with a username that is already stored is
\* rejected and leaves the collection unchanged.
C8_UsernameIsKey ==
    [][ /\ UniqueUsernames(users)
        /\ UniqueUsernames(users')
        /\ (vars' # vars /\ HandlingUsers("add_new_user")) =>
              \A inp \in NewUserInputs :
                 (/\ UsersNamed(users, get_input(inp[1])) # {}
                  /\ add_new_user(inp[1], inp[2], inp[3], inp[4], inp[5])) =>
                     /\ users' = users
                     /\ notice' \in {"Username already exists.", "Invalid role."} ]_vars

\* an add_new_user with a stored username has been turned down
C8_Witness ==
    /\ notice = "Username already exists."
    /\ Len(users) >= 4

---------------------------------------------------------------------------
(* C9: what a newly submitted complaint is stored as. *)

\* C9: a successful submission appends one complaint whose id is "C" followed
\* by the number of complaints stored before plus one, written in exactly four
\* digits with leading zeros ("C0001" on an empty collection), whose username
\* is the current user, whose status is "Open" and whose resolved_date is null.
C9_StoredAsFourDigitId ==
    [][ SubmittedStep =>
          LET n == Len(complaints)
              new == complaints'[n + 1]
              id == new["complaint_id"]
          IN  /\ Len(complaints') = n + 1
              /\ Head(id) = "C"
              /\ \A k \in 2..Len(id) : \E v \in 1..10 : DigitChars[v] = id[k]
              /\ IdNumber(id) = n + 1
              /\ Len(Tail(id)) = 4
              /\ (n = 0) => (id = <<"C", "0", "0", "0", "1">>)
              /\ new["username"] = current_user[1].username
              /\ new["status"] = "Open"
              /\ new["resolved_date"] = None ]_vars

\* a complaint has been stored under an id of more than four digits
C9_Witness ==
    /\ notice = "Complaint submitted successfully!"
    /\ complaints # <<>>
    /\ Len(Tail(complaints[Len(complaints)]["complaint_id"])) > 4

---------------------------------------------------------------------------
(* C10: the life of a complaint. *)

\* C10: no step removes or reorders a stored complaint; a stored complaint
\* changes status only from Open to Resolved, and only in a resolve_complaints
\* step of a warden or admin; so a Resolved complaint keeps its status.
C10_OpenToResolvedOnly ==
    [][ /\ Len(complaints') >= Len(complaints)
        /\ \A i \in 1..Len(complaints) :
              /\ complaints'[i]["complaint_id"] = complaints[i]["complaint_id"]
              /\ complaints'[i]["status"] # complaints[i]["status"] =>
                    /\ complaints[i]["status"] = "Open"
                    /\ complaints'[i]["status"] = "Resolved"
                    /\ ResolveComplaints
                    /\ current_user[1].role \in {"warden", "admin"} ]_vars

\* a complaint has been resolved
C10_Witness ==
    /\ notice = "Complaint marked as resolved!"
    /\ \E i \in 1..Len(complaints) :
          /\ complaints[i]["status"] = "Resolved"
          /\ complaints[i]["resolved_date"] # None

---------------------------------------------------------------------------
(* C11: the data-mutating operations are gated by role. *)

ResidentWrites == {"submit_complaint", "mark_attendance", "submit_feedback"}
WardenWrites == {"resolve_complaints"}
AdminWrites == {"manage_users_admin", "manage_rooms_admin",
                "update_mess_menu_admin", "add_event_admin"}

\* the role whose menu grants a mutating handler
GrantedRole(handler) ==
    CASE handler \in ResidentWrites -> "resident"
      [] handler \in WardenWrites -> "warden"
      [] handler \in AdminWrites -> "admin"

\* no token typed at the menu prompt reaches a mutating handler of another role
GatedTable ==
    InMenu =>
        \A choice \in HandledChoices :
            LET handler == handle_menu_choice(choice)
            IN  handler \in (ResidentWrites \cup WardenWrites \cup AdminWrites)
                    => current_user[1].role = GrantedRole(handler)

\* every change of a collection is made under the role that is granted it
GatedWrites ==
    LET role == IF current_user = <<>> THEN "nobody" ELSE current_user[1].role
    IN  /\ attendance' # attendance => role = "resident"
        /\ feedback' # feedback => role = "resident"
        /\ Len(complaints') > Len(complaints) => role = "resident"
        /\ (complaints' # complaints /\ Len(complaints') = Len(complaints))
              => role = "warden"
        /\ (users' # users \/ rooms' # rooms \/ menu' # menu \/ events' # events)
              => role = "admin"

\* C11: submit complaint, mark attendance and submit feedback are reached only
\* by a resident, resolve complaint only by a warden, the user, room, menu and
\* event changes only by an admin: no menu token of another role dispatches
\* to them, and no step changes a collection under another role.
C11_WritesGatedByRole ==
    [][ GatedTable /\ GatedWrites ]_vars

\* a warden has resolved the complaint a resident submitted
C11_Witness ==
    /\ current_user # <<>>
    /\ current_user[1].role = "warden"
    /\ notice = "Complaint marked as resolved!"
    /\ Len(complaints) = 1
    /\ complaints[1]["status"] = "Resolved"

---------------------------------------------------------------------------
(* C12: the session is bound by a successful login and by nothing else. *)

\* the step binds a user: a login that succeeded with the credentials of a
\* stored user
BoundByLogin ==
    /\ pc = "loop" /\ pc' = "loop"
    /\ notice' = "Welcome back"
    /\ \E i \in 1..Len(users) :
          /\ current_user'[1].username = users[i]["username"]
          /\ current_user'[1].password = users[i]["password"]
          /\ current_user'[1].role = users[i]["role"]

\* the step unbinds the user: logout, or the end of the run
Unbound ==
    /\ current_user' = <<>>
    /\ \/ (pc' = "loop" /\ notice' = "Logged out successfully!")
       \/ pc' = "exited"

\* C12: the current user changes from unbound to bound only in a successful
\* authenticate step, a bound user stays the same until logout or the end of
\* the run, and while no user is bound no step changes a collection or prints
\* anything but the outcome of a login (no menu pass runs).
C12_BoundOnlyByLogin ==
    [][ /\ (current_user = <<>> /\ current_user' # <<>>) => BoundByLogin
        /\ (current_user # <<>> /\ current_user' # current_user) => Unbound
        /\ current_user = <<>> =>
              /\ docs' = docs
              /\ notice' \in {notice, "Welcome back",
                              "Invalid credentials. Please try again."} ]_vars

\* a user the admin added has logged in after the admin logged out
C12_Witness ==
    /\ current_user # <<>>
    /\ current_user[1].username = "aisha"
    /\ notice = "Welcome back"
    /\ pc = "loop"

---------------------------------------------------------------------------
(* C13: logout, exit / quit and help at the menu prompt. *)

\* the logout option of each role's menu
LogoutOption(role) ==
    CASE role = "resident" -> "12"
      [] role = "warden" -> "13"
      [] role = "admin" -> "14"

\* exit and quit as they may be typed
ExitTyped == {"exit", "Exit", "EXIT", "quit", "Quit", "QUIT"}

\* exit and quit, however typed, are not among the tokens run() hands on
ExitNeverDispatched ==
    \A typed \in MenuChoices \cap ExitTyped : get_input(typed) \notin HandledChoices

\* C13: at the menu prompt the logout option of the current user's role is
\* dispatched to logout, and a logout step clears the current user and keeps
\* the loop running (the next pass asks for a login); exit or quit in any
\* letter case is never handed to the dispatcher and an exit step ends the
\* loop; a help step changes neither the session nor any collection.
C13_LogoutExitHelp ==
    [][ /\ InMenu =>
              /\ LogoutOption(current_user[1].role) \in HandledChoices
              /\ handle_menu_choice(LogoutOption(current_user[1].role)) = "logout"
        /\ ExitNeverDispatched
        /\ (vars' # vars /\ Logout) =>
              (current_user' = <<>> /\ pc' = "loop" /\ docs' = docs)
        /\ (vars' # vars /\ Exit) => (pc' = "exited" /\ docs' = docs)
        /\ Help => UNCHANGED <<current_user, pc, docs>> ]_vars

\* a resident has logged out after submitting a complaint
C13_Witness ==
    /\ current_user = <<>>
    /\ pc = "loop"
    /\ notice = "Logged out successfully!"
    /\ complaints # <<>>

---------------------------------------------------------------------------
(* C14: a menu token that matches no option. *)

\* the tokens handed to the dispatcher that match no option of the current role
UnmatchedChoices == {choice \in HandledChoices : handle_menu_choice(choice) = "none"}

\* C14: a pass of the menu loop whose token matches no option of the current
\* user's role prints an error notice, and leaves the session in the menu
\* loop with the same current user and every collection as it is.
C14_UnmatchedChoiceReported ==
    [][ /\ (InMenu /\ UnmatchedChoices # {}) => unmatched_choice_notice # ""
        /\ NoMatch => UNCHANGED <<current_user, pc, docs>> ]_vars

\* a resident is at the menu prompt, where 13, abc and the empty token match
\* no option
C14_Witness ==
    /\ InMenu
    /\ current_user[1].role = "resident"
    /\ {"13", "abc", ""} \subseteq UnmatchedChoices

----------------------------------------------------------------------------
(* C15: a login attempt that fails on the credentials. *)

\* the login attempts without an exit/quit token that match no stored user
FailedLogins ==
    {inp \in LoginNames \X LoginPasswords :
        /\ Lower(get_input(inp[1])) \notin {"exit", "quit"}
        /\ Lower(get_input(inp[2])) \notin {"exit", "quit"}
        /\ ~authenticate(inp[1], inp[2]).ok}

\* a pass of run() through authenticate() with such an attempt
FailedLoginStep ==
    /\ pc = "loop"
    /\ current_user = <<>>
    /\ FailedLogins # {}
    /\ notice' = "Invalid credentials. Please try again."
    /\ UNCHANGED <<docs, today, sessions, nops>>

\* C15: a failed login that carries no exit/quit token is not fatal: the loop
\* stays unauthenticated and running, ready to prompt again; from the login
\* prompt only an exit/quit token ends the program.
C15_FailedLoginNotFatal ==
    [][ FailedLoginStep => (pc' = "loop" /\ current_user' = <<>>) ]_vars

\* the program has ended on wrong credentials, nobody having typed exit or quit
C15_Witness ==
    /\ pc = "exited"
    /\ current_user = <<>>
    /\ notice = "Invalid credentials. Please try again."

----------------------------------------------------------------------------
(* C16: validation of the typed fields of the write operations. *)

\* some prompted field of the positions req was left blank
Blank(inp, req) == \E k \in req : get_input(inp[k]) = ""

\* submit_complaint prompts: category (1-7), description
InvalidComplaint(inp) ==
    Blank(inp, {1, 2}) \/ get_input(inp[1]) \notin ComplaintCategoryKeys

\* submit_feedback prompts: category (1-6), feedback, rating (1-5)
InvalidFeedback(inp) ==
    \/ Blank(inp, {1, 2, 3})
    \/ get_input(inp[1]) \notin FeedbackCategoryKeys
    \/ ~IsInt(get_input(inp[3]))
    \/ IntOf(get_input(inp[3])) \notin 1..5

\* add_new_user prompts: username, password, full name, role (1-3); the room
\* number is the one prompt marked optional
InvalidNewUser(inp) ==
    Blank(inp, {1, 2, 3, 4}) \/ get_input(inp[4]) \notin RoleKeys

\* add_new_room prompts: room number, capacity
InvalidNewRoom(inp) ==
    Blank(inp, {1, 2}) \/ ~valid_capacity(get_input(inp[2]))

\* update_mess_menu_admin prompts: day (1-7), breakfast, lunch, dinner
InvalidMenu(inp) ==
    \/ Blank(inp, {1, 2, 3, 4})
    \/ ~IsInt(get_input(inp[1]))
    \/ IntOf(get_input(inp[1])) \notin 1..7

\* add_event_admin prompts: title, description, date, time, venue
InvalidEvent(inp) == Blank(inp, {1, 2, 3, 4, 5})

\* the messages of a completed write
WrittenNotices ==
    {"Complaint submitted successfully!",
     "Thank you for your feedback! We appreciate your input.",
     "User added successfully!", "Room added successfully!",
     "Menu updated successfully!", "Event added successfully!"}

Aborted == docs' = docs /\ notice' \notin WrittenNotices

\* C16: in submit complaint, submit feedback, add user, add room, add event and
\* update menu day, a blank required field, a rating outside 1..5 or an invalid
\* numeric choice aborts the operation with a message and changes no collection.
C16_InvalidInputAborts ==
    [][ /\ (vars' # vars /\ Handling("submit_complaint")) =>
              \A inp \in ComplaintInputs :
                  (InvalidComplaint(inp) /\ submit_complaint(inp[1], inp[2])) => Aborted
        /\ (vars' # vars /\ Handling("submit_feedback")) =>
              \A inp \in FeedbackInputs :
                  (InvalidFeedback(inp) /\ submit_feedback(inp[1], inp[2], inp[3]))
                      => Aborted
        /\ (vars' # vars /\ HandlingUsers("add_new_user")) =>
              \A inp \in NewUserInputs :
                  (InvalidNewUser(inp)
                     /\ add_new_user(inp[1], inp[2], inp[3], inp[4], inp[5])) => Aborted
        /\ (vars' # vars /\ HandlingRooms("add_new_room")) =>
              \A inp \in NewRoomInputs :
                  (InvalidNewRoom(inp) /\ add_new_room(inp[1], inp[2])) => Aborted
        /\ (vars' # vars /\ Handling("update_mess_menu_admin")) =>
              \A inp \in MenuInputs :
                  (InvalidMenu(inp)
                     /\ update_mess_menu_admin(inp[1], inp[2], inp[3], inp[4])) => Aborted
        /\ (vars' # vars /\ Handling("add_event_admin")) =>
              \A inp \in EventInputs :
                  (InvalidEvent(inp)
                     /\ add_event_admin(inp[1], inp[2], inp[3], inp[4], inp[5]))
                      => Aborted
      ]_vars

\* a user without username and password and an event without any field are stored
C16_Witness ==
    /\ \E i \in 1..Len(users) : users[i]["username"] = "" /\ users[i]["password"] = ""
    /\ \E i \in 1..Len(events) : events[i]["title"] = "" /\ events[i]["date"] = ""

----------------------------------------------------------------------------
(* C17: references to a user, a room or a listed complaint that do not exist. *)

\* no stored user carries the typed username
UnknownUser(typed_username) ==
    ~username_exists(load_users, get_input(typed_username))

\* the room numbers of the loaded rooms
room_numbers(loaded) == {loaded[i].room_number : i \in 1..Len(loaded)}

\* no stored room carries the typed room number
UnknownRoom(typed_room) == get_input(typed_room) \notin room_numbers(load_rooms)

\* resolve_complaints: len(open_complaints)
count_open(loaded) ==
    Cardinality({i \in 1..Len(loaded) : loaded[i].status = "Open"})

\* how many complaints the numbered list of resolve_complaints shows
open_count == count_open(load_complaints)

\* a number typed at the prompt of resolve_complaints that is not in the list
OutsideListed(typed_choice) ==
    /\ open_count > 0
    /\ IsInt(get_input(typed_choice))
    /\ IntOf(get_input(typed_choice)) \notin 1..open_count

\* the warden is at the menu and the list of open complaints is not empty
ResolvePrompted ==
    InMenu /\ current_user[1].role = "warden" /\ open_count > 0

\* every line allocate_room can end on
allocate_room_notices ==
    {"User not found.", "Room not found.", "Room is full.", "Room allocated!"}

\* every line delete_user can end on
delete_user_notices ==
    {"User not found.", "You cannot delete yourself!", "User deleted successfully!",
     "Deletion cancelled."}

\* the steps of allocate_room, delete_user and resolve_complaints on a miss:
\* nothing is stored and the miss is the line printed (the message after the
\* number 0 in resolve_complaints is left to the two statements below)
MissesReported ==
    /\ (vars' # vars /\ notice' \in allocate_room_notices
                      /\ HandlingRooms("allocate_room")) =>
          \A tu \in AllocUsernames :
              IF UnknownUser(tu)
              THEN \A tr \in AllocRooms :
                       allocate_room(tu, tr) =>
                           (docs' = docs /\ notice' = "User not found.")
              ELSE \A tr \in AllocRooms :
                       (UnknownRoom(tr) /\ allocate_room(tu, tr)) =>
                           (docs' = docs /\ notice' = "Room not found.")
    /\ (vars' # vars /\ notice' \in delete_user_notices
                      /\ HandlingUsers("delete_user")) =>
          \A inp \in DeleteInputs :
              (UnknownUser(inp[1]) /\ delete_user(inp[1], inp[2])) =>
                  (docs' = docs /\ notice' = "User not found.")
    /\ (vars' # vars /\ Handling("resolve_complaints")) =>
          \A tc \in NumberChoices :
              (OutsideListed(tc) /\ resolve_complaints(tc)) =>
                  /\ docs' = docs
                  /\ IntOf(get_input(tc)) # 0 => notice' = "Invalid choice."

\* C17 as stated: an unknown username in allocate_room or delete_user, an
\* unknown room in allocate_room and every complaint number outside the listed
\* open complaints in resolve_complaints is reported and changes no collection.
C17_EveryMissReported ==
    [][ /\ MissesReported
        /\ ResolvePrompted =>
              \A tc \in NumberChoices :
                  OutsideListed(tc) => resolve_complaints_notice(tc) # ""
      ]_vars

\* C17 as the code has it: the same, except that the number 0 at the prompt
\* of resolve_complaints cancels without any message (and without any change).
C17_MissReportedUnlessCancelled ==
    [][ /\ MissesReported
        /\ ResolvePrompted =>
              \A tc \in NumberChoices :
                  OutsideListed(tc) =>
                      resolve_complaints_notice(tc) =
                          IF IntOf(get_input(tc)) = 0 THEN "" ELSE "Invalid choice."
      ]_vars

\* the warden typed a number beyond an existing list of open complaints
C17_Witness ==
    /\ ResolvePrompted
    /\ notice = "Invalid choice."
    /\ \E i \in 1..Len(complaints) : complaints[i]["status"] = "Open"

----------------------------------------------------------------------------
(* C18: documents that are missing or damaged when they are loaded. *)

\* the documents DataManager.load_json serves
Collections == {"users", "complaints", "events", "rooms", "attendance", "feedback"}

\* the hostel_data directory is outside the program: a file is removed or
\* overwritten between two passes of the loop (counted in the budget nops)
Damage ==
    /\ pc = "loop"
    /\ nops < MaxOps
    /\ nops' = nops + 1
    /\ \E name \in FileNames, state \in DamagedStates :
         /\ files' = [files EXCEPT ![name] = state]
         /\ users' = IF name = "users" THEN <<>> ELSE users
         /\ complaints' = IF name = "complaints" THEN <<>> ELSE complaints
         /\ events' = IF name = "events" THEN <<>> ELSE events
         /\ rooms' = IF name = "rooms" THEN <<>> ELSE rooms
         /\ attendance' = IF name = "attendance" THEN <<>> ELSE attendance
         /\ feedback' = IF name = "feedback" THEN <<>> ELSE feedback
         /\ menu' = IF name = "menu" THEN <<>> ELSE menu
    /\ UNCHANGED <<current_user, pc, today, sessions, notice>>

\* the handlers the user can start from the prompt the loop is at
Startable ==
    Reachable
      \cup (IF "manage_users_admin" \in Reachable THEN UsersHandlers ELSE {})
      \cup (IF "manage_rooms_admin" \in Reachable THEN RoomsHandlers ELSE {})

\* an exception of a load leaves the handler, handle_menu_choice and run();
\* __main__ reports it and the process ends
LoadError ==
    /\ pc = "loop"
    /\ IF current_user = <<>>
       THEN load_fails("users")
       ELSE \E handler \in Startable :
                \E name \in EntryLoads(handler) \cup LateLoads(handler) :
                    load_fails(name)
    /\ pc' = "exited"
    /\ current_user' = <<>>
    /\ notice' = ErrorNotice
    /\ UNCHANGED <<docs, today, sessions, nops>>

NextLoad ==
    \/ Damage
    \/ LoadError
    \/ Authenticate
    \/ Exit
    \/ Logout
    \/ ViewMessMenu
    \/ ViewEvents
    \/ ViewMyComplaints
    \/ MarkAttendance
    \/ SubmitFeedback
    \/ ViewRoomAllocation
    \/ ShowStatisticsDashboard
    \/ ViewAllUsers
    \/ UpdateMessMenuAdmin
    \/ AddEventAdmin

SpecLoad == Init /\ [][NextLoad]_vars

\* what a caller of load_users, load_complaints, ... gets from the document
load_outcome(name) ==
    IF load_fails(name) THEN "error"
    ELSE IF load_json(name, <<"content">>) = <<>> THEN "empty" ELSE "content"

\* C18: loading a collection (users, complaints, events, rooms, attendance,
\* feedback) whose backing document is missing or is not valid JSON returns
\* an empty collection, and no error propagates to the calling operation.
C18_DamagedLoadsEmpty ==
    [][ /\ \A name \in Collections :
              files[name] \in DamagedStates => load_outcome(name) = "empty"
        /\ (\E name \in Collections : files[name] \in DamagedStates) =>
              notice' # ErrorNotice
      ]_vars

\* the program has ended on the error of a load
C18_Witness ==
    /\ pc = "exited"
    /\ notice = ErrorNotice
    /\ \E name \in Collections : files[name] = "undecodable"

----------------------------------------------------------------------------
(* C19: to_dict followed by from_dict. *)

\* the elements of a list
Elements(seq) == {seq[i] : i \in 1..Len(seq)}

\* User objects as the constructor builds them, with and without a room
UserRecords ==
    {User(username, "pw", role, room_number, full_name) :
        username \in {"sarah", ""}, role \in {"resident", "warden", "admin"},
        room_number \in {None, "", "101"}, full_name \in {"", "Sarah Ahmed"}}

\* Complaint objects as the constructor builds them (the date given or not),
\* as submitted and after resolve_complaints has marked them
ComplaintRecords ==
    LET built == {Complaint(FormatId("C", 1), "sarah", category, "leak", status, submitted_date) :
                     category \in {"Maintenance", "Other"},
                     status \in {"Open", "Resolved"},
                     submitted_date \in {None, "", DateTimeStr(0)}}
    IN  built \cup {resolved(c, DateTimeStr(today)) : c \in built}

\* Event objects as the constructor builds them
EventRecords ==
    {Event(FormatId("E", 1), title, "Tea and sweets", date, "17:00", venue) :
        title \in {"", "Eid Milan"}, date \in {"", "2025-04-01"},
        venue \in {"", "Hall"}}

\* Room objects as the constructor builds them, empty and occupied
RoomRecords ==
    {Room(room_number, capacity, Len(residents), residents) :
        room_number \in {"101", ""}, capacity \in {1, 2},
        residents \in {<<>>, <<"sarah">>, <<"sarah", "fatima">>}}

\* C19: for every User, Complaint, Event and Room record r, a Complaint with a
\* set resolved_date, a User without room_number and a Room without residents
\* included, from_dict(to_dict(r)) equals r field for field.
C19_RoundTrip ==
    /\ \A u \in UserRecords \cup Elements(load_users) :
           User_from_dict(User_to_dict(u)) = u
    /\ \A c \in ComplaintRecords \cup Elements(load_complaints) :
           Complaint_from_dict(Complaint_to_dict(c)) = c
    /\ \A e \in EventRecords \cup Elements(load_events) :
           Event_from_dict(Event_to_dict(e)) = e
    /\ \A r \in RoomRecords \cup Elements(load_rooms) :
           Room_from_dict(Room_to_dict(r)) = r

\* the stored records include a resolved complaint, a user without a room and
\* a room without residents
C19_Witness ==
    /\ \E c \in Elements(load_complaints) :
           c.status = "Resolved" /\ c.resolved_date # None
    /\ \E u \in Elements(load_users) : u.room_number = None
    /\ \E r \in Elements(load_rooms) : r.residents = <<>>

----------------------------------------------------------------------------
(* C20: the aggregates of the statistics dashboard. *)

\* the fraction rate equals a / b
IsRatio(rate, a, b) == rate.den # 0 /\ rate.num * b = a * rate.den

\* the fraction rate, a percentage, equals a / b
IsPercentOf(rate, a, b) == rate.den # 0 /\ rate.num * b = 100 * a * rate.den

\* C20: with zero residents the attendance rate is not computed, with zero
\* complaints the resolution rate is not computed, with zero feedback records
\* the average rating is 0; otherwise the attendance rate is today's attendance
\* count over the resident count, the resolution rate is resolved over total
\* and the average rating is the sum of the ratings over their number.
C20_StatisticsGuarded ==
    LET computed == show_statistics_dashboard
        residents == {i \in 1..Len(users) : users[i]["role"] = "resident"}
        present == {i \in 1..Len(attendance) : attendance[i]["date"] = DateStr(today)}
        resolved_ones == {i \in 1..Len(complaints) : complaints[i]["status"] = "Resolved"}
    IN  /\ IF residents = {}
           THEN computed.attendance_rate = NotComputed
           ELSE IsPercentOf(computed.attendance_rate,
                            Cardinality(present), Cardinality(residents))
        /\ IF complaints = <<>>
           THEN computed.resolution_rate = NotComputed
           ELSE IsPercentOf(computed.resolution_rate,
                            Cardinality(resolved_ones), Len(complaints))
        /\ IF feedback = <<>>
           THEN computed.avg_rating.num = 0 /\ computed.avg_rating.den # 0
           ELSE IsRatio(computed.avg_rating, sum_ratings(feedback), Len(feedback))

\* a warden or admin can open the dashboard the day after an attendance was
\* marked, with a resident still stored
C20_Witness ==
    /\ InMenu
    /\ "show_statistics_dashboard" \in Reachable
    /\ attendance # <<>>
    /\ \A i \in 1..Len(attendance) : attendance[i]["date"] # DateStr(today)
    /\ \E i \in 1..Len(users) : users[i]["role"] = "resident"

----------------------------------------------------------------------------
\* C21: append-style writes

\* new_doc is old_doc with exactly one record added at the end
AppendedOne(old_doc, new_doc) ==
    /\ Len(new_doc) = Len(old_doc) + 1
    /\ SubSeq(new_doc, 1, Len(old_doc)) = old_doc

\* C21: every successful submit complaint, mark attendance, submit feedback,
\* add user, add room and add event step appends exactly one record at the
\* end of its own collection, keeps the records stored before it as they were
\* and in their order, and leaves every other collection as it was.
C21_AppendOnlyFrame ==
    [][/\ ( /\ notice' = "Complaint submitted successfully!"
            /\ vars' # vars
            /\ SubmitComplaint )
          => /\ AppendedOne(complaints, complaints')
             /\ UNCHANGED <<users, rooms, attendance, feedback, events, menu>>
       /\ ( /\ notice' = "Attendance marked successfully"
            /\ vars' # vars
            /\ MarkAttendance )
          => /\ AppendedOne(attendance, attendance')
             /\ UNCHANGED <<users, rooms, complaints, feedback, events, menu>>
       /\ ( /\ notice' = "Thank you for your feedback! We appreciate your input."
            /\ vars' # vars
            /\ SubmitFeedback )
          => /\ AppendedOne(feedback, feedback')
             /\ UNCHANGED <<users, rooms, complaints, attendance, events, menu>>
       /\ ( /\ notice' = "User added successfully!"
            /\ vars' # vars
            /\ AddNewUser )
          => /\ AppendedOne(users, users')
             /\ UNCHANGED <<rooms, complaints, attendance, feedback, events, menu>>
       /\ ( /\ notice' = "Room added successfully!"
            /\ vars' # vars
            /\ AddNewRoom )
          => /\ AppendedOne(rooms, rooms')
             /\ UNCHANGED <<users, complaints, attendance, feedback, events, menu>>
       /\ ( /\ notice' = "Event added successfully!"
            /\ vars' # vars
            /\ AddEventAdmin )
          => /\ AppendedOne(events, events')
             /\ UNCHANGED <<users, rooms, complaints, attendance, feedback, menu>>
      ]_vars

\* a second complaint was stored behind an earlier one
C21_Witness ==
    /\ notice = "Complaint submitted successfully!"
    /\ Len(complaints) = 2
    /\ complaints[1]["complaint_id"] = FormatId("C", 1)
    /\ complaints[2]["complaint_id"] = FormatId("C", 2)

----------------------------------------------------------------------------
(* Two processes of the program on one hostel_data/ directory: submit_complaint
   as the file operations it is made of, with nothing that excludes the other
   process between them. *)

Sessions == {1, 2}

\* the residents logged in in the two processes
session_user(s) == default_users[s + 2]

\* a process at its menu: no handler is running, its locals do not exist
at_menu(s) == [current_user |-> session_user(s), at |-> "menu", category |-> "", description |-> "", complaints |-> <<>>, complaint_id |-> <<>>, overwrites |-> FALSE, notice |-> ""]

InitRace ==
    /\ users = user_dicts(default_users)
    /\ rooms = room_dicts(default_rooms)
    /\ menu = default_menu
    /\ complaints = <<>>
    /\ events = <<>>
    /\ attendance = <<>>
    /\ feedback = <<>>
    /\ current_user = <<>>
    /\ pc = "loop"
    /\ today = 0
    /\ notice = "WELCOME TO HOSTELHELPER"
    /\ nops = 0
    /\ files = [name \in FileNames |-> "valid"]
    /\ sessions = [s \in Sessions |-> at_menu(s)]

\* submit_complaint up to load_complaints(): the two prompts, then the document
\* is read into the local list and the ID is taken from its length
RaceLoad(s) ==
    /\ sessions[s].at = "menu"
    /\ \E inp \in ComplaintInputs :
        LET choice == get_input(inp[1])
            description == get_input(inp[2])
            loaded == load_complaints
        IN  IF choice \notin ComplaintCategoryKeys THEN
                /\ sessions' = [sessions EXCEPT ![s].notice = "Invalid choice."]
                /\ UNCHANGED nops
            ELSE IF description = "" THEN
                /\ sessions' = [sessions EXCEPT ![s].notice = "Complaint description cannot be empty."]
                /\ UNCHANGED nops
            ELSE
                /\ nops < MaxOps
                /\ nops' = nops + 1
                /\ sessions' = [sessions EXCEPT ![s].at = "loaded",
                                                ![s].category = complaint_category(choice),
                                                ![s].description = description,
                                                ![s].complaints = loaded,
                                                ![s].complaint_id = new_complaint_id(loaded),
                                                ![s].notice = ""]
    /\ UNCHANGED <<docs, current_user, pc, today, notice>>

\* Complaint(...) and complaints.append(new_complaint) on the local list
RaceAppend(s) ==
    /\ sessions[s].at = "loaded"
    /\ LET new_complaint == Complaint(sessions[s].complaint_id,
                                      sessions[s].current_user.username,
                                      sessions[s].category, sessions[s].description,
                                      "Open", None)
       IN  sessions' = [sessions EXCEPT ![s].at = "appended",
                                        ![s].complaints = Append(@, new_complaint)]
    /\ UNCHANGED <<docs, current_user, pc, today, notice, nops>>

\* save_json: open(file_path, 'w') empties the file; until the text is written
\* out a reader finds text that json.load rejects
RaceOpen(s) ==
    /\ sessions[s].at = "appended"
    /\ sessions' = [sessions EXCEPT ![s].at = "opened"]
    /\ complaints' = <<>>
    /\ files' = [files EXCEPT !["complaints"] = "invalid"]
    /\ UNCHANGED <<users, rooms, attendance, feedback, events, menu>>
    /\ UNCHANGED <<current_user, pc, today, notice, nops>>

\* a variant that writes the stored list with the new record behind it
RaceDump_merging(s) ==
    /\ sessions[s].at = "opened"
    /\ complaints' = Append(complaints, Complaint_to_dict(sessions[s].complaints[Len(sessions[s].complaints)]))
    /\ files' = save_json("complaints")
    /\ sessions' = [sessions EXCEPT ![s].at = "reported", ![s].notice = "Complaint submitted successfully!"]
    /\ UNCHANGED <<users, rooms, attendance, feedback, events, menu>>
    /\ UNCHANGED <<current_user, pc, today, notice, nops>>

\* save_json: json.dump and the close of the file, then the success lines.
\* The text goes to offset 0 of the file.  When the other process had the
\* file open for writing too, the second text lands on the first one: the
\* file then holds the second list, or text that is no JSON when the first
\* text was the longer one.
RaceDump(s) ==
    /\ sessions[s].at = "opened"
    /\ \E landed \in IF sessions[s].overwrites THEN {"valid", "invalid"} ELSE {"valid"} :
        /\ files' = [files EXCEPT !["complaints"] = landed]
        /\ complaints' = IF landed = "valid" THEN complaint_dicts(sessions[s].complaints)
                         ELSE <<>>
    /\ sessions' = [t \in Sessions |->
                      IF t = s
                      THEN [sessions[s] EXCEPT !.at = "reported", !.overwrites = FALSE,
                                               !.notice = "Complaint submitted successfully!"]
                      ELSE IF sessions[t].at = "opened"
                      THEN [sessions[t] EXCEPT !.overwrites = TRUE]
                      ELSE sessions[t]]
    /\ UNCHANGED <<users, rooms, attendance, feedback, events, menu>>
    /\ UNCHANGED <<current_user, pc, today, notice, nops>>

\* input("Press Enter to return to menu..."): the handler returns
RaceReturn(s) ==
    /\ sessions[s].at = "reported"
    /\ sessions' = [sessions EXCEPT ![s] = at_menu(s)]
    /\ UNCHANGED <<docs, current_user, pc, today, notice, nops>>

NextRace ==
    \/ \E s \in Sessions : RaceLoad(s)
    \/ \E s \in Sessions : RaceAppend(s)
    \/ \E s \in Sessions : RaceOpen(s)
    \/ \E s \in Sessions : RaceDump(s)
    \/ \E s \in Sessions : RaceReturn(s)

SpecRace == InitRace /\ [][NextRace]_vars

\* the complaint a process has just reported as submitted
reported_complaint(s) == Complaint_to_dict(sessions[s].complaints[Len(sessions[s].complaints)])

\* both processes show the success lines of a submission made from a list of
\* the same length
BothReported ==
    /\ \A s \in Sessions : sessions[s].at = "reported"
    /\ Len(sessions[1].complaints) = Len(sessions[2].complaints)

\* C22: when both processes report success for submissions that started from
\* a document of the same length (each loaded before the other saved), both
\* complaints carry the same ID and the document, where it still parses, is
\* the list of the last writer: it holds one of the two complaints and not
\* the other.
C22_LastWriterWins ==
    BothReported =>
        /\ sessions[1].complaint_id = sessions[2].complaint_id
        /\ files["complaints"] = "valid" =>
              /\ complaints \in {complaint_dicts(sessions[s].complaints) : s \in Sessions}
              /\ (\E i \in 1..Len(complaints) : complaints[i] = reported_complaint(1))
                     # (\E i \in 1..Len(complaints) : complaints[i] = reported_complaint(2))

\* the interleaving exists: both report success with ID C0001 and the
\* document holds one complaint
C22_Witness ==
    /\ BothReported
    /\ \A s \in Sessions : sessions[s].notice = "Complaint submitted successfully!"
    /\ \A s \in Sessions : sessions[s].complaint_id = FormatId("C", 1)
    /\ files["complaints"] = "valid"
    /\ Len(complaints) = 1
    /\ complaints[1]["username"] = "fatima"

----------------------------------------------------------------------------
(* allocate_room as the file operations it is made of: the admin's process can
   stop (be killed, lose power) at any of its positions. *)

\* a process of the admin at its menu: no handler is running
admin_at_menu == [current_user |-> default_users[1], at |-> "menu", stopped |-> FALSE, username |-> "", room_number |-> "", users |-> <<>>, rooms |-> <<>>, notice |-> ""]

\* the one process of this specification
alloc == sessions[1]

InitAlloc ==
    /\ users = user_dicts(default_users)
    /\ rooms = room_dicts(default_rooms)
    /\ menu = default_menu
    /\ complaints = <<>>
    /\ events = <<>>
    /\ attendance = <<>>
    /\ feedback = <<>>
    /\ current_user = <<>>
    /\ pc = "loop"
    /\ today = 0
    /\ notice = "WELCOME TO HOSTELHELPER"
    /\ nops = 0
    /\ files = [name \in FileNames |-> "valid"]
    /\ sessions = <<admin_at_menu>>

\* the usernames typed at the prompt of this specification
StepAllocUsernames == AllocUsernames \cup {"fatima", "admin"}

\* allocate_room up to the two saves: the prompts, both loads, the three
\* refusals, then user.room_number and the room are updated in the loaded lists
AllocUpdate ==
    /\ alloc.at = "menu" /\ ~alloc.stopped
    /\ \E tu \in StepAllocUsernames, tr \in AllocRooms :
        LET username == get_input(tu)
            room_number == get_input(tr)
            loaded_users == load_users
            loaded_rooms == load_rooms
            user_hits == {i \in 1..Len(loaded_users) : loaded_users[i].username = username}
            room_hits == {i \in 1..Len(loaded_rooms) : loaded_rooms[i].room_number = room_number}
        IN  IF user_hits = {} THEN
                /\ sessions' = [sessions EXCEPT ![1].notice = "User not found."]
                /\ UNCHANGED nops
            ELSE IF room_hits = {} THEN
                /\ sessions' = [sessions EXCEPT ![1].notice = "Room not found."]
                /\ UNCHANGED nops
            ELSE IF ~is_available(loaded_rooms[Min(room_hits)]) THEN
                /\ sessions' = [sessions EXCEPT ![1].notice = "Room is full."]
                /\ UNCHANGED nops
            ELSE
                LET u == Min(user_hits)
                    r == Min(room_hits)
                IN  /\ nops < MaxOps
                    /\ nops' = nops + 1
                    /\ sessions' = [sessions EXCEPT
                          ![1].at = "updated",
                          ![1].username = username,
                          ![1].room_number = room_number,
                          ![1].users = [loaded_users EXCEPT ![u].room_number = room_number],
                          ![1].rooms = [loaded_rooms EXCEPT ![r] = allocated_room(loaded_rooms[r], username)],
                          ![1].notice = ""]
    /\ UNCHANGED <<docs, current_user, pc, today, notice>>

\* a variant that writes the room list at this position
AllocSaveUsers_rooms_first ==
    /\ alloc.at = "updated" /\ ~alloc.stopped
    /\ rooms' = room_dicts(alloc.rooms)
    /\ files' = save_json("rooms")
    /\ sessions' = [sessions EXCEPT ![1].at = "users_saved"]
    /\ UNCHANGED <<users, complaints, attendance, feedback, events, menu>>
    /\ UNCHANGED <<current_user, pc, today, notice, nops>>

\* save_users([u.to_dict() for u in users])
AllocSaveUsers ==
    /\ alloc.at = "updated" /\ ~alloc.stopped
    /\ users' = user_dicts(alloc.users)
    /\ files' = save_json("users")
    /\ sessions' = [sessions EXCEPT ![1].at = "users_saved"]
    /\ UNCHANGED <<rooms, complaints, attendance, feedback, events, menu>>
    /\ UNCHANGED <<current_user, pc, today, notice, nops>>

\* save_rooms([r.to_dict() for r in rooms]) and the success line
AllocSaveRooms ==
    /\ alloc.at = "users_saved" /\ ~alloc.stopped
    /\ rooms' = room_dicts(alloc.rooms)
    /\ files' = save_json("rooms")
    /\ sessions' = [sessions EXCEPT ![1].at = "reported", ![1].notice = "Room allocated!"]
    /\ UNCHANGED <<users, complaints, attendance, feedback, events, menu>>
    /\ UNCHANGED <<current_user, pc, today, notice, nops>>

\* input("Press Enter to continue..."): the handler returns
AllocReturn ==
    /\ alloc.at = "reported" /\ ~alloc.stopped
    /\ sessions' = <<admin_at_menu>>
    /\ UNCHANGED <<docs, current_user, pc, today, notice, nops>>

\* the process ends where it is; what it wrote stays on disk
AllocStop ==
    /\ ~alloc.stopped
    /\ sessions' = [sessions EXCEPT ![1].stopped = TRUE]
    /\ UNCHANGED <<docs, current_user, pc, today, notice, nops>>

NextAlloc ==
    \/ AllocUpdate
    \/ AllocSaveUsers
    \/ AllocSaveRooms
    \/ AllocReturn
    \/ AllocStop

\* a running process reaches its next statement: nothing waits for input
\* between the update of the lists and the second save
SpecAlloc ==
    /\ InitAlloc
    /\ [][NextAlloc]_vars
    /\ WF_vars(AllocSaveUsers)
    /\ WF_vars(AllocSaveRooms)

----------------------------------------------------------------------------
\* C23: the two writes of allocate_room

\* the users document gives the allocated user the allocated room
user_reflects ==
    \E i \in 1..Len(users) :
        users[i]["username"] = alloc.username /\ users[i]["room_number"] = alloc.room_number

\* the rooms document lists the allocated user in the allocated room
room_lists ==
    \E i \in 1..Len(rooms) :
        /\ rooms[i]["room_number"] = alloc.room_number
        /\ \E k \in 1..Len(rooms[i]["residents"]) : rooms[i]["residents"][k] = alloc.username

\* the rooms document is the list the handler holds: residents and occupied
\* of the allocated room already are what the second save would write
room_reflects == room_lists /\ rooms = room_dicts(alloc.rooms)

\* the process stopped after save_users and before save_rooms
StoppedBetween == alloc.stopped /\ alloc.at = "users_saved"

\* once the lists are updated, both documents come to reflect the allocation
\* unless the process stops before
BothWritten ==
    (alloc.at = "updated" /\ ~alloc.stopped) ~>
        (alloc.stopped \/ (alloc.at = "reported" /\ user_reflects /\ room_reflects))

\* users is written first: from the first save on the users document gives
\* the user the room
UsersFirst == [](alloc.at \in {"users_saved", "reported"} => user_reflects)

\* C23 as stated: users is saved before rooms; without an interruption both
\* documents come to reflect the allocation; a process stopped between the
\* two writes leaves the user with the room number while the rooms document
\* does not list the user.
C23_StoppedBetweenNotListed ==
    /\ BothWritten
    /\ UsersFirst
    /\ [](StoppedBetween => (user_reflects /\ ~room_lists))

\* C23, amended: users is saved before rooms; without an interruption both
\* documents come to reflect the allocation; a process stopped between the
\* two writes leaves the user with the room number, and the rooms document
\* lists the user only where it listed them before the call, so that the
\* second save had nothing to add.
C23_StoppedBetweenRoomUnwritten ==
    /\ BothWritten
    /\ UsersFirst
    /\ [](StoppedBetween =>
            /\ user_reflects
            /\ room_lists => rooms = room_dicts(alloc.rooms))

\* the process stopped between the writes of an allocation of an unlisted
\* user: sarah has room 103, room 103 has no resident
C23_Witness ==
    /\ StoppedBetween
    /\ alloc.username = "sarah" /\ alloc.room_number = "103"
    /\ user_reflects
    /\ ~room_lists

----------------------------------------------------------------------------
\* C24: users.json and rooms.json agree on who lives where

\* the stored room at index r lists the username among its residents
Lists(r, username) ==
    \E k \in 1..Len(rooms[r]["residents"]) : rooms[r]["residents"][k] = username

\* every username that occurs in a residents list
ListedNames == UNION {Elements(rooms[r]["residents"]) : r \in 1..Len(rooms)}

\* C24: in every state reached through add_new_user, delete_user and
\* allocate_room a username is listed in the residents of at most one room,
\* and a stored user has room_number r exactly when the residents of room r
\* list that username.
C24_RoomsAgreeWithUsers ==
    /\ \A name \in ListedNames :
          Cardinality({r \in 1..Len(rooms) : Lists(r, name)}) <= 1
    /\ \A i \in 1..Len(users) : \A r \in 1..Len(rooms) :
          users[i]["room_number"] = rooms[r]["room_number"] <=> Lists(r, users[i]["username"])

\* an allocation moved sarah to room 103 and room 101 still lists her
C24_Witness ==
    /\ notice = "Room allocated!"
    /\ \E i \in 1..Len(users) :
          users[i]["username"] = "sarah" /\ users[i]["room_number"] = "103"
    /\ \E r \in 1..Len(rooms) : rooms[r]["room_number"] = "101" /\ Lists(r, "sarah")
    /\ \E r \in 1..Len(rooms) : rooms[r]["room_number"] = "103" /\ Lists(r, "sarah")

----------------------------------------------------------------------------
\* C25: delete_user keeps the logged-in user and an admin

\* the usernames stored in a users document
Usernames(us) == {us[i]["username"] : i \in 1..Len(us)}

\* a step of delete_user that took a user out of the collection
Removal ==
    /\ vars' # vars
    /\ notice' = "User deleted successfully!"
    /\ HandlingUsers("delete_user")
    /\ Len(users') < Len(users)

\* the logged-in user is stored
CurrentUserStored == current_user # <<>> => current_user[1].username \in Usernames(users)

\* some stored user has the role admin
AdminStored == \E i \in 1..Len(users) : users[i]["role"] = "admin"

\* C25: a step of delete_user that removes a user removes a user other than
\* the logged-in one, and only on a confirmation that reads yes; so in every
\* state the logged-in user is stored while a user is logged in, and some
\* stored user has the role admin.
C25_SelfAndAdminKept ==
    /\ [][Removal =>
            /\ current_user[1].username \in Usernames(users')
            /\ \A inp \in DeleteInputs :
                  (get_input(inp[1]) \notin Usernames(users') /\ delete_user(inp[1], inp[2]))
                      => /\ Lower(get_input(inp[2])) = "yes"
                         /\ get_input(inp[1]) # current_user[1].username
                         /\ Usernames(users') = Usernames(users) \ {get_input(inp[1])}
         ]_vars
    /\ [](CurrentUserStored /\ AdminStored)

\* an admin added in this run has deleted the seeded admin and is logged in
C25_Witness ==
    /\ notice = "User deleted successfully!"
    /\ current_user # <<>>
    /\ current_user[1].username = "aisha"
    /\ "admin" \notin Usernames(users)
    /\ AdminStored

----------------------------------------------------------------------------
\* C26: the dashboard on an empty rooms collection

\* C26: show_statistics_dashboard completes without an error in every
\* reachable state of the collections: a step of it leaves the program in its
\* loop with the user logged in, also when no room is loaded (rooms.json is
\* missing or does not parse) and the total capacity is 0.
C26_DashboardCompletes ==
    [][ShowStatisticsDashboard =>
          /\ pc' = "loop"
          /\ current_user' = current_user
          /\ notice' # ErrorNotice]_vars

\* the dashboard was opened with rooms.json missing or unparsable and the
\* program ended on the error
C26_Witness ==
    /\ files["rooms"] \in {"missing", "invalid"}
    /\ \A name \in FileNames \ {"rooms"} : files[name] = "valid"
    /\ rooms = <<>>
    /\ pc = "exited"
    /\ notice = ErrorNotice

----------------------------------------------------------------------------
(* The program on a data directory of a day on which residents have marked
   their attendance. *)

\* the record mark_attendance stores for a user on a day
attendance_record(username, day) == [username |-> username, date |-> DateStr(day), time |-> "09:00:00", status |-> "Present"]

\* attendance.json after sarah, then fatima, marked attendance on day 0
marked_today == <<attendance_record("sarah", 0), attendance_record("fatima", 0)>>

InitAttended ==
    /\ users = user_dicts(default_users)
    /\ rooms = room_dicts(default_rooms)
    /\ menu = default_menu
    /\ complaints = <<>>
    /\ events = <<>>
    /\ \E n \in 0..Len(marked_today) : attendance = SubSeq(marked_today, 1, n)
    /\ feedback = <<>>
    /\ current_user = <<>>
    /\ pc = "loop"
    /\ today = 0
    /\ notice = "WELCOME TO HOSTELHELPER"
    /\ nops = 0
    /\ files = [name \in FileNames |-> "valid"]
    /\ sessions = <<>>

NextAttended ==
    \/ Authenticate
    \/ Exit
    \/ Logout
    \/ Tick
    \/ MarkAttendance
    \/ ViewAttendanceReport
    \/ ShowStatisticsDashboard
    \/ AddNewUser
    \/ DeleteUser

SpecAttended == InitAttended /\ [][NextAttended]_vars

----------------------------------------------------------------------------
\* C27: present count and resident count

\* the two numbers of "Present: x/y" on the dashboard and of the report's
\* line for the current date
present_today == today_attendance(load_attendance, today)
resident_count == count_where(load_users, "role", "resident")

\* C27: in every reachable state the attendance records of the current date
\* that the dashboard and the attendance report count as present are at most
\* as many as the users with role resident, also after an admin deleted a
\* resident who had marked attendance.
C27_PresentWithinResidents == present_today <= resident_count

\* sarah marked attendance today and was deleted; an admin or warden is at
\* the menu that offers the dashboard
C27_Witness ==
    /\ InMenu
    /\ "show_statistics_dashboard" \in Reachable
    /\ \E i \in 1..Len(attendance) :
          attendance[i]["username"] = "sarah" /\ attendance[i]["date"] = DateStr(today)
    /\ \A i \in 1..Len(users) : users[i]["username"] # "sarah"
    /\ present_today > resident_count

====
